---- MODULE Spec2Model ----
(***************************************************************************)
(* SBOM license auditor: the SPDX license-expression parser and policy     *)
(* evaluator (helpers/spdx_expression_parser.py), the license-name         *)
(* resolver (helpers/license_resolver.py) and the policy lookups of        *)
(* helpers/audit_licenses.py.                                              *)
(*                                                                         *)
(* A Python str is modelled as a sequence of one-character strings, so     *)
(* that tokenizing, case folding, stripping and substring replacement are  *)
(* computed character by character as the code computes them.  Positions   *)
(* are 0-based as in the code; the character at position p of s is s[p+1]. *)
(***************************************************************************)
EXTENDS Naturals, Integers, Sequences, FiniteSets, TLC

-----------------------------------------------------------------------------
(* Characters and the str methods the code uses *)

UpperChars == <<"A","B","C","D","E","F","G","H","I","J","K","L","M",
                "N","O","P","Q","R","S","T","U","V","W","X","Y","Z">>

LowerChars == <<"a","b","c","d","e","f","g","h","i","j","k","l","m",
                "n","o","p","q","r","s","t","u","v","w","x","y","z">>

DigitChars == {"0","1","2","3","4","5","6","7","8","9"}

UpperSet == {UpperChars[i] : i \in DOMAIN UpperChars}

LowerSet == {LowerChars[i] : i \in DOMAIN LowerChars}

\* str.isspace for one character
isspace(c) == c \in {" ", "\t"}

\* str.lower for one character
lower_char(c) ==
    IF c \in UpperSet
    THEN LowerChars[CHOOSE i \in DOMAIN UpperChars : UpperChars[i] = c]
    ELSE c

\* str.lower
lower(s) == [i \in 1..Len(s) |-> lower_char(s[i])]

\* s[i:j] for 0 <= i <= j <= len(s)
Slice(s, i, j) == SubSeq(s, i + 1, j)

\* s.startswith(p)
startswith(s, p) == Len(p) <= Len(s) /\ SubSeq(s, 1, Len(p)) = p

\* c in s, for a character c
HasChar(s, c) == \E i \in 1..Len(s) : s[i] = c

SetMin(S) == CHOOSE x \in S : \A y \in S : x <= y

SetMax(S) == CHOOSE x \in S : \A y \in S : y <= x

\* s.strip(chars): leading and trailing characters of the set cs removed
strip_chars(s, cs) ==
    LET keep == {i \in 1..Len(s) : s[i] \notin cs}
    IN  IF keep = {} THEN <<>> ELSE SubSeq(s, SetMin(keep), SetMax(keep))

\* s.rstrip(chars)
rstrip_chars(s, cs) ==
    LET keep == {i \in 1..Len(s) : s[i] \notin cs}
    IN  IF keep = {} THEN <<>> ELSE SubSeq(s, 1, SetMax(keep))

\* s.strip()
strip(s) == strip_chars(s, {" ", "\t"})

\* s.split(c)[0]: the text before the first c (all of s when c is absent)
split_first(s, c) ==
    LET at == {i \in 1..Len(s) : s[i] = c}
    IN  IF at = {} THEN s ELSE SubSeq(s, 1, SetMin(at) - 1)

\* the positions of text at which pattern occurs
Occurrences(text, pattern) ==
    {i \in 0..(Len(text) - Len(pattern)) : Slice(text, i, i + Len(pattern)) = pattern}

\* text from position i on, with the leftmost non-overlapping occurrences
\* among the candidate positions `at`, each n characters long, replaced by new
RECURSIVE ReplaceAt(_, _, _, _, _)
ReplaceAt(text, i, at, n, new) ==
    LET ahead == {c \in at : c >= i}
    IN  IF ahead = {} THEN Slice(text, i, Len(text))
        ELSE Slice(text, i, SetMin(ahead)) \o new
                 \o ReplaceAt(text, SetMin(ahead) + n, at, n, new)

\* s.replace(old, new) for a non-empty old: leftmost, non-overlapping
replace(s, old, new) == ReplaceAt(s, 0, Occurrences(s, old), Len(old), new)

\* sep.join(parts)
RECURSIVE join(_, _)
join(sep, parts) ==
    IF parts = <<>> THEN <<>>
    ELSE IF Len(parts) = 1 THEN parts[1]
    ELSE parts[1] \o sep \o join(sep, Tail(parts))

\* 1*(ALPHA / DIGIT / "-" / "."): the character class of the reference patterns
IsIdChar(c) == c \in UpperSet \/ c \in LowerSet \/ c \in DigitChars \/ c \in {"-", "."}

IsIdString(s) == Len(s) >= 1 /\ \A i \in 1..Len(s) : IsIdChar(s[i])

-----------------------------------------------------------------------------
(* Tokens *)

TokenTypes == {"LICENSE_ID", "LICENSE_REF", "ADDITION_REF", "PLUS", "AND",
               "OR", "WITH", "LPAREN", "RPAREN", "EOF"}

Token(type, value, position) ==
    [type |-> type, value |-> value, position |-> position]

\* TokenType.name as text, as repr(token) prints it
TypeName(type) ==
    CASE type = "LICENSE_ID"   -> <<"L","I","C","E","N","S","E","_","I","D">>
      [] type = "LICENSE_REF"  -> <<"L","I","C","E","N","S","E","_","R","E","F">>
      [] type = "ADDITION_REF" -> <<"A","D","D","I","T","I","O","N","_","R","E","F">>
      [] type = "PLUS"         -> <<"P","L","U","S">>
      [] type = "AND"          -> <<"A","N","D">>
      [] type = "OR"           -> <<"O","R">>
      [] type = "WITH"         -> <<"W","I","T","H">>
      [] type = "LPAREN"       -> <<"L","P","A","R","E","N">>
      [] type = "RPAREN"       -> <<"R","P","A","R","E","N">>
      [] type = "EOF"          -> <<"E","O","F">>

\* Token.__repr__: Token(<TYPE>, '<value>')
TokenRepr(t) ==
    <<"T","o","k","e","n","(">> \o TypeName(t.type) \o <<",", " ", "'">>
        \o t.value \o <<"'", ")">>

sLicenseRef == <<"L","i","c","e","n","s","e","R","e","f","-">>

sAdditionRef == <<"A","d","d","i","t","i","o","n","R","e","f","-">>

sDocumentRef == <<"D","o","c","u","m","e","n","t","R","e","f","-">>

\* ^(?:DocumentRef-(idstring):)?<prefix>(idstring)$
MatchesRef(s, prefix) ==
    \/ startswith(s, prefix) /\ IsIdString(Slice(s, Len(prefix), Len(s)))
    \/ /\ startswith(s, sDocumentRef)
       /\ \E k \in (Len(sDocumentRef) + 2)..Len(s) :
             /\ s[k] = ":"
             /\ IsIdString(SubSeq(s, Len(sDocumentRef) + 1, k - 1))
             /\ startswith(Slice(s, k, Len(s)), prefix)
             /\ IsIdString(Slice(s, k + Len(prefix), Len(s)))

_is_license_ref(s) == MatchesRef(s, sLicenseRef)

_is_addition_ref(s) == MatchesRef(s, sAdditionRef)

-----------------------------------------------------------------------------
(* _tokenize *)

sAND == <<"A","N","D">>

sand == <<"a","n","d">>

sOR == <<"O","R">>

sor == <<"o","r">>

sWITH == <<"W","I","T","H">>

swith == <<"w","i","t","h">>

\* the operator table of the for loop, in its order
OperatorTable ==
    << [upper |-> sAND,  low |-> sand,  type |-> "AND"],
       [upper |-> sOR,   low |-> sor,   type |-> "OR"],
       [upper |-> sWITH, low |-> swith, type |-> "WITH"] >>

\* the inner whitespace loop: the first position >= pos that holds no
\* whitespace (the length when there is none)
SkipWhitespace(expression, pos) ==
    SetMin({q \in pos..Len(expression) :
               q = Len(expression) \/ ~isspace(expression[q + 1])})

\* one operator of the table matches at the head of remaining: the word in
\* one of its two casings, followed by whitespace, "(" or the end
OperatorMatches(remaining, op) ==
    /\ startswith(remaining, op.upper) \/ startswith(remaining, op.low)
    /\ \/ Len(op.upper) >= Len(remaining)
       \/ isspace(remaining[Len(op.upper) + 1])
       \/ remaining[Len(op.upper) + 1] = "("

\* the index of the first operator of the table that matches, 0 when none does
MatchOperator(remaining) ==
    LET hits == {k \in DOMAIN OperatorTable :
                    OperatorMatches(remaining, OperatorTable[k])}
    IN  IF hits = {} THEN 0 ELSE SetMin(hits)

\* the identifier loop stops at position q: at the end, at whitespace, at a
\* parenthesis, or at a "+" that whitespace or the end follows
IdentifierStops(expression, q) ==
    \/ q >= Len(expression)
    \/ isspace(expression[q + 1])
    \/ expression[q + 1] \in {"(", ")"}
    \/ /\ expression[q + 1] = "+"
       /\ (q + 1 >= Len(expression) \/ isspace(expression[q + 2]))

\* an identifier loop that leaves pos where it is
IdentifierEnd_Empty(expression, pos) == pos

\* the identifier loop: where the run of identifier characters from pos ends
IdentifierEnd(expression, pos) ==
    SetMin({q \in pos..Len(expression) : IdentifierStops(expression, q)})

ClassifyIdentifier(identifier) ==
    IF _is_license_ref(identifier) THEN "LICENSE_REF"
    ELSE IF _is_addition_ref(identifier) THEN "ADDITION_REF"
    ELSE "LICENSE_ID"

\* One iteration of the while loop of _tokenize, entered at pos < len:
\* the tokens it appends (none or one) and the position it leaves.
TokenizeStep(expression, pos0) ==
    LET pos            == SkipWhitespace(expression, pos0)
        had_whitespace == pos > pos0
    IN  IF pos >= Len(expression)
        THEN [emit |-> <<>>, pos |-> pos]
        ELSE
        LET char      == expression[pos + 1]
            remaining == Slice(expression, pos, Len(expression))
            op        == MatchOperator(remaining)
        IN  IF char = "("
            THEN [emit |-> <<Token("LPAREN", <<"(">>, pos)>>, pos |-> pos + 1]
            ELSE IF char = ")"
            THEN [emit |-> <<Token("RPAREN", <<")">>, pos)>>, pos |-> pos + 1]
            ELSE IF char = "+"
            THEN IF had_whitespace
                    /\ (pos + 1 >= Len(expression) \/ isspace(expression[pos + 2]))
                 THEN [emit |-> <<Token("AND", <<"+">>, pos)>>, pos |-> pos + 1]
                 ELSE [emit |-> <<Token("PLUS", <<"+">>, pos)>>, pos |-> pos + 1]
            ELSE IF /\ startswith(lower(remaining), <<"w", "/">>)
                    /\ (Len(remaining) = 2 \/ isspace(remaining[3]))
            THEN [emit |-> <<Token("WITH", <<"w", "/">>, pos)>>, pos |-> pos + 2]
            ELSE IF op # 0
            THEN [emit |-> <<Token(OperatorTable[op].type,
                                   Slice(remaining, 0, Len(OperatorTable[op].upper)),
                                   pos)>>,
                  pos  |-> pos + Len(OperatorTable[op].upper)]
            ELSE LET id_end     == IdentifierEnd(expression, pos)
                     identifier == Slice(expression, pos, id_end)
                 IN  IF id_end > pos
                     THEN [emit |-> <<Token(ClassifyIdentifier(identifier),
                                            identifier, pos)>>,
                           pos  |-> id_end]
                     ELSE [emit |-> <<>>, pos |-> id_end]

\* the while loop of _tokenize
RECURSIVE TokenizeLoop(_, _, _)
TokenizeLoop(expression, pos, tokens) ==
    IF pos >= Len(expression) THEN tokens
    ELSE LET Advance(step) ==
                 IF step.pos > pos
                 THEN TokenizeLoop(expression, step.pos, tokens \o step.emit)
                 ELSE tokens \o step.emit
         IN  Advance(TokenizeStep(expression, pos))

_tokenize(expression0) ==
    LET expression == strip(expression0)
    IN  TokenizeLoop(expression, 0, <<>>)
            \o <<Token("EOF", <<>>, Len(expression))>>

-----------------------------------------------------------------------------
(* Alias tables.  A dict is a sequence of <<key, value>> pairs with        *)
(* distinct keys, in insertion order.                                      *)

DictHas(d, k) == \E i \in DOMAIN d : d[i][1] = k

DictGet(d, k) == d[CHOOSE i \in DOMAIN d : d[i][1] = k][2]

\* d[k] = v: an existing key keeps its place, a new key goes last
DictSet(d, k, v) ==
    IF DictHas(d, k)
    THEN [i \in DOMAIN d |-> IF d[i][1] = k THEN <<k, v>> ELSE d[i]]
    ELSE Append(d, <<k, v>>)

s_comment == <<"_","c","o","m","m","e","n","t">>

\* {k.lower(): v for k, v in items if k != '_comment'}
RECURSIVE LowerKeys(_, _)
LowerKeys(items, acc) ==
    IF items = <<>> THEN acc
    ELSE LowerKeys(Tail(items),
                   IF items[1][1] = s_comment THEN acc
                   ELSE DictSet(acc, lower(items[1][1]), items[1][2]))

\* SPDXExpressionParser.__init__: the parser object, self
SPDXExpressionParser(license_aliases, combined_aliases) ==
    [license_aliases  |-> LowerKeys(license_aliases, <<>>),
     combined_aliases |-> LowerKeys(combined_aliases, <<>>)]

\* _normalize_license_id looking up the id as given, before the strip
_normalize_license_id_RawKey(self, license_id0) ==
    IF license_id0 = <<>> THEN license_id0
    ELSE IF DictHas(self.license_aliases, lower(license_id0))
    THEN DictGet(self.license_aliases, lower(license_id0))
    ELSE strip(license_id0)

_normalize_license_id(self, license_id0) ==
    IF license_id0 = <<>> THEN license_id0
    ELSE LET license_id == strip(license_id0)
             lookup_key == lower(license_id)
         IN  IF DictHas(self.license_aliases, lookup_key)
             THEN DictGet(self.license_aliases, lookup_key)
             ELSE license_id

\* an insertion that keeps the order of the dict, whatever the lengths
InsertByLength_Unsorted(sorted, item) == Append(sorted, item)

\* sorted(items, key=len of the key, reverse=True): stable insertion sort
RECURSIVE InsertByLength(_, _)
InsertByLength(sorted, item) ==
    IF sorted = <<>> THEN <<item>>
    ELSE IF Len(sorted[1][1]) >= Len(item[1])
         THEN <<sorted[1]>> \o InsertByLength(Tail(sorted), item)
         ELSE <<item>> \o sorted

RECURSIVE SortByLength(_, _)
SortByLength(items, acc) ==
    IF items = <<>> THEN acc
    ELSE SortByLength(Tail(items), InsertByLength(acc, items[1]))

\* the phrase boundaries of the substitution pattern
BoundaryBefore(text, i) == i = 0 \/ isspace(text[i]) \/ text[i] \in {"(", ")"}

BoundaryAfter(text, j) ==
    j = Len(text) \/ isspace(text[j + 1]) \/ text[j + 1] \in {"(", ")"}

\* pattern.sub(spdx_id, text): every leftmost, non-overlapping,
\* case-insensitive occurrence of the alias that stands between two
\* boundaries is replaced
SubstituteAlias(text, alias_lower, spdx_id) ==
    LET n  == Len(alias_lower)
        at == {i \in 0..(Len(text) - n) :
                  /\ BoundaryBefore(text, i)
                  /\ lower(Slice(text, i, i + n)) = alias_lower
                  /\ BoundaryAfter(text, i + n)}
    IN  ReplaceAt(text, 0, at, n, spdx_id)

\* the for loop over sorted_aliases
RECURSIVE ApplySortedAliases(_, _)
ApplySortedAliases(result, sorted_aliases) ==
    IF sorted_aliases = <<>> THEN result
    ELSE ApplySortedAliases(
             SubstituteAlias(result, sorted_aliases[1][1], sorted_aliases[1][2]),
             Tail(sorted_aliases))

_apply_aliases_to_expression(self, expression) ==
    LET space_aliases == SelectSeq(self.license_aliases,
                             LAMBDA kv : HasChar(kv[1], " ") \/ HasChar(kv[1], ","))
    IN  IF expression = <<>> \/ self.license_aliases = <<>> THEN expression
        ELSE IF space_aliases = <<>> THEN expression
        ELSE ApplySortedAliases(expression, SortByLength(space_aliases, <<>>))

-----------------------------------------------------------------------------
(* Policy table lookup.  A policy table is a sequence of records           *)
(* [id, usagePolicy]; None is the absent result.                           *)

None == "None"

UsagePolicies == {"allow", "deny", "needs-review"}

s_only == <<"-","o","n","l","y">>

s_or_later == <<"-","o","r","-","l","a","t","e","r">>

s_with_ == <<"-","w","i","t","h","-">>

sSpWITHSp == <<" ","W","I","T","H"," ">>

s_exception == <<"-","e","x","c","e","p","t","i","o","n">>

\* the usagePolicy of the first entry of the table whose id is one of ids,
\* compared as written or, when fold holds, in lower case
FirstPolicy(license_policies, ids, fold) ==
    LET hits == {i \in DOMAIN license_policies :
                    \E id \in ids :
                        IF fold THEN lower(license_policies[i].id) = lower(id)
                        ELSE license_policies[i].id = id}
    IN  IF hits = {} THEN None ELSE license_policies[SetMin(hits)].usagePolicy

\* the first of the variants, in order, that some entry equals up to case
RECURSIVE FirstVariantPolicy(_, _)
FirstVariantPolicy(license_policies, variants) ==
    IF variants = <<>> THEN None
    ELSE LET found == FirstPolicy(license_policies, {variants[1]}, TRUE)
         IN  IF found # None THEN found
             ELSE FirstVariantPolicy(license_policies, Tail(variants))

_find_license_policy(self, license_id, license_policies, or_later) ==
    LET original_id   == rstrip_chars(license_id, {"+"})
        normalized_id == _normalize_license_id(self, original_id)
        exact == FirstPolicy(license_policies,
                             {normalized_id, original_id}, FALSE)
        insensitive == FirstPolicy(license_policies,
                                   {normalized_id, original_id}, TRUE)
        base == replace(replace(original_id, s_only, <<>>), s_or_later, <<>>)
    IN  IF exact # None THEN exact
        ELSE IF insensitive # None THEN insensitive
        ELSE IF or_later
        THEN FirstVariantPolicy(license_policies,
                 <<base \o s_only, base \o s_or_later, base>>)
        ELSE None

\* \d+(\.\d+)* matches all of t
IsVersionNumber(t) ==
    /\ Len(t) >= 1
    /\ \A i \in 1..Len(t) : t[i] \in DigitChars \/ t[i] = "."
    /\ t[1] \in DigitChars /\ t[Len(t)] \in DigitChars
    /\ \A i \in 1..(Len(t) - 1) : ~(t[i] = "." /\ t[i + 1] = ".")

\* re.sub(r'-\d+(\.\d+)*$', '', s)
StripVersionSuffix(s) ==
    LET at == {i \in 1..Len(s) : s[i] = "-" /\ IsVersionNumber(Slice(s, i, Len(s)))}
    IN  IF at = {} THEN s ELSE SubSeq(s, 1, SetMin(at) - 1)

_find_with_policy(self, base_license, exception, license_policies) ==
    LET base_normalized      == _normalize_license_id(self, base_license)
        exception_normalized == _normalize_license_id(self, exception)
        exception_base       == StripVersionSuffix(exception_normalized)
        combined_forms ==
            << base_normalized \o s_with_ \o exception_normalized,
               base_normalized \o sSpWITHSp \o exception_normalized >>
            \o (IF exception_base # exception_normalized
                THEN << base_normalized \o s_with_ \o exception_base,
                        base_normalized \o s_with_ \o exception_base \o s_exception >>
                ELSE <<>>)
    IN  FirstVariantPolicy(license_policies, combined_forms)

-----------------------------------------------------------------------------
(* The recursive-descent evaluator.  Every _parse_* returns the triple     *)
(* (policy, explanation, new position) as a record.                        *)

sOrAllowed == <<"O","R",":"," ","a","t"," ","l","e","a","s","t"," ","o","n","e",
                " ","a","l","l","o","w","e","d"," ","(">>

sOrDenied == <<"O","R",":"," ","a","l","l"," ","d","e","n","i","e","d"," ","(">>

sOrNone == <<"O","R",":"," ","n","o","n","e"," ","a","l","l","o","w","e","d"," ","(">>

sAndAllowed == <<"A","N","D",":"," ","a","l","l"," ","a","l","l","o","w","e","d"," ","(">>

sAndDenied == <<"A","N","D",":"," ","a","t"," ","l","e","a","s","t"," ","o","n","e",
                " ","d","e","n","i","e","d"," ","(">>

sAndReview == <<"A","N","D",":"," ","s","o","m","e"," ","n","e","e","d"," ",
                "r","e","v","i","e","w"," ","(">>

sSemi == <<";"," ">>

sQuoteWITHQuote == <<"'"," ","W","I","T","H"," ","'">>

sBaseAllowed == <<"'"," ","(","b","a","s","e"," ","a","l","l","o","w","e","d",")">>

sBaseDenied == <<"'"," ","(","b","a","s","e"," ","d","e","n","i","e","d",")">>

sBaseReview == <<"'"," ","(","b","a","s","e"," ","n","e","e","d","s"," ",
                 "r","e","v","i","e","w",")">>

sEmptyExpression == <<"E","m","p","t","y"," ","e","x","p","r","e","s","s","i","o","n">>

sCustomRef == <<"'"," ","(","c","u","s","t","o","m"," ","l","i","c","e","n","s","e"," ",
                "r","e","f","e","r","e","n","c","e",")">>

sNoPolicy == <<"'"," ","(","n","o"," ","p","o","l","i","c","y",")">>

sUnexpectedToken == <<"U","n","e","x","p","e","c","t","e","d"," ","t","o","k","e","n",":"," ">>

Result(policy, expl, pos) == [policy |-> policy, expl |-> expl, pos |-> pos]

\* [r[1] for r in results]
Explanations(results) == [i \in DOMAIN results |-> results[i].expl]

\* OrAggregate with the deny rule of AND: denied as soon as one operand is
OrAggregate_DenyIfAny(results, pos) ==
    IF \E i \in DOMAIN results : results[i].policy = "deny"
    THEN Result("deny", sOrDenied, pos)
    ELSE IF \E i \in DOMAIN results : results[i].policy = "allow"
    THEN Result("allow", sOrAllowed, pos)
    ELSE Result("needs-review", sOrNone, pos)

\* AndAggregate with the allow rule of OR: allowed as soon as one operand is
AndAggregate_AllowIfAny(results, pos) ==
    IF \E i \in DOMAIN results : results[i].policy = "allow"
    THEN Result("allow", sAndAllowed, pos)
    ELSE IF \E i \in DOMAIN results : results[i].policy = "deny"
    THEN Result("deny", sAndDenied, pos)
    ELSE Result("needs-review", sAndReview, pos)

\* OrAggregate with no policy where no operand is allowed and not all are
\* denied
OrAggregate_NoneWhenUndecided(results, pos) ==
    LET inner == join(sSemi, Explanations(results)) \o <<")">>
    IN  IF \E i \in DOMAIN results : results[i].policy = "allow"
        THEN Result("allow", sOrAllowed \o inner, pos)
        ELSE IF \A i \in DOMAIN results : results[i].policy = "deny"
        THEN Result("deny", sOrDenied \o inner, pos)
        ELSE Result(None, sOrNone \o inner, pos)

\* the aggregation of _parse_or_expression over two or more results
OrAggregate(results, pos) ==
    LET inner == join(sSemi, Explanations(results)) \o <<")">>
    IN  IF \E i \in DOMAIN results : results[i].policy = "allow"
        THEN Result("allow", sOrAllowed \o inner, pos)
        ELSE IF \A i \in DOMAIN results : results[i].policy = "deny"
        THEN Result("deny", sOrDenied \o inner, pos)
        ELSE Result("needs-review", sOrNone \o inner, pos)

\* the aggregation of _parse_and_expression over two or more results
AndAggregate(results, pos) ==
    LET inner == join(sSemi, Explanations(results)) \o <<")">>
    IN  IF \A i \in DOMAIN results : results[i].policy = "allow"
        THEN Result("allow", sAndAllowed \o inner, pos)
        ELSE IF \E i \in DOMAIN results : results[i].policy = "deny"
        THEN Result("deny", sAndDenied \o inner, pos)
        ELSE Result("needs-review", sAndReview \o inner, pos)

\* base_expl.strip("'").split("'")[0] if "'" in base_expl else base_expl
BaseIdOf(base_expl) ==
    IF HasChar(base_expl, "'")
    THEN split_first(strip_chars(base_expl, {"'"}), "'")
    ELSE base_expl

RECURSIVE _parse_expression(_, _, _, _)
RECURSIVE _parse_or_expression(_, _, _, _)
RECURSIVE OrLoop(_, _, _, _, _)
RECURSIVE _parse_and_expression(_, _, _, _)
RECURSIVE AndLoop(_, _, _, _, _)
RECURSIVE _parse_with_expression(_, _, _, _)
RECURSIVE _parse_simple_expression(_, _, _, _)

\* _parse_expression entering the grammar at the AND level
_parse_expression_AtAndLevel(self, tokens, pos, license_policies) ==
    _parse_and_expression(self, tokens, pos, license_policies)

_parse_expression(self, tokens, pos, license_policies) ==
    _parse_or_expression(self, tokens, pos, license_policies)

\* the while loop of _parse_or_expression: the results list and the position
OrLoop(self, tokens, pos, license_policies, results) ==
    IF pos < Len(tokens) /\ tokens[pos + 1].type = "OR"
    THEN LET Continue(right) ==
                 OrLoop(self, tokens, right.pos, license_policies,
                        Append(results, right))
         IN  Continue(_parse_and_expression(self, tokens, pos + 1, license_policies))
    ELSE [results |-> results, pos |-> pos]

_parse_or_expression(self, tokens, pos0, license_policies) ==
    LET Finish(left, loop) ==
            IF Len(loop.results) = 1
            THEN Result(left.policy, left.expl, loop.pos)
            ELSE OrAggregate(loop.results, loop.pos)
        While(left) ==
            Finish(left, OrLoop(self, tokens, left.pos, license_policies, <<left>>))
    IN  While(_parse_and_expression(self, tokens, pos0, license_policies))

\* the while loop of _parse_and_expression
AndLoop(self, tokens, pos, license_policies, results) ==
    IF pos < Len(tokens) /\ tokens[pos + 1].type = "AND"
    THEN LET Continue(right) ==
                 AndLoop(self, tokens, right.pos, license_policies,
                         Append(results, right))
         IN  Continue(_parse_with_expression(self, tokens, pos + 1, license_policies))
    ELSE [results |-> results, pos |-> pos]

_parse_and_expression(self, tokens, pos0, license_policies) ==
    LET Finish(left, loop) ==
            IF Len(loop.results) = 1
            THEN Result(left.policy, left.expl, loop.pos)
            ELSE AndAggregate(loop.results, loop.pos)
        While(left) ==
            Finish(left, AndLoop(self, tokens, left.pos, license_policies, <<left>>))
    IN  While(_parse_with_expression(self, tokens, pos0, license_policies))

\* the body of `if pos < len(tokens) and tokens[pos].type == WITH`, entered
\* with the base result and pos already past the WITH
WithException(self, tokens, pos, license_policies, base, base_id, exception_id) ==
    LET quoted == <<"'">> \o base_id \o sQuoteWITHQuote \o exception_id
        Decide(combined_policy) ==
            IF combined_policy # None
            THEN Result(combined_policy,
                        <<"'">> \o base_id \o sSpWITHSp \o exception_id \o <<"'">>,
                        pos + 1)
            ELSE IF base.policy = "allow"
            THEN Result("allow", quoted \o sBaseAllowed, pos + 1)
            ELSE IF base.policy = "deny"
            THEN Result("deny", quoted \o sBaseDenied, pos + 1)
            ELSE Result("needs-review", quoted \o sBaseReview, pos + 1)
    IN  Decide(_find_with_policy(self, base_id, exception_id, license_policies))

_parse_with_expression(self, tokens, pos0, license_policies) ==
    LET AfterBase(base) ==
            IF base.pos < Len(tokens) /\ tokens[base.pos + 1].type = "WITH"
            THEN IF /\ base.pos + 1 < Len(tokens)
                    /\ tokens[base.pos + 2].type \in {"LICENSE_ID", "ADDITION_REF"}
                 THEN WithException(self, tokens, base.pos + 1, license_policies,
                                    base, BaseIdOf(base.expl),
                                    tokens[base.pos + 2].value)
                 ELSE Result(base.policy, base.expl, base.pos + 1)
                                                  \* the WITH stays consumed
            ELSE base
    IN  AfterBase(_parse_simple_expression(self, tokens, pos0, license_policies))

\* a closing step that takes the next token whatever it is
ClosingParen_Always(tokens, pos) == pos + 1

\* the closing parenthesis expected at pos is consumed when it is there
ClosingParen(tokens, pos) ==
    IF pos < Len(tokens) /\ tokens[pos + 1].type = "RPAREN"
    THEN pos + 1 ELSE pos

_parse_simple_expression(self, tokens, pos, license_policies) ==
    IF pos >= Len(tokens) \/ tokens[pos + 1].type = "EOF"
    THEN Result("needs-review", sEmptyExpression, pos)
    ELSE
    LET token    == tokens[pos + 1]
        or_later == pos + 1 < Len(tokens) /\ tokens[pos + 2].type = "PLUS"
        Parenthesized(inner) ==
            Result(inner.policy, <<"(">> \o inner.expl \o <<")">>,
                   ClosingParen(tokens, inner.pos))
        Reference(policy) ==
            IF policy # None
            THEN Result(policy, <<"'">> \o token.value \o <<"'">>, pos + 1)
            ELSE Result("needs-review", <<"'">> \o token.value \o sCustomRef, pos + 1)
        License(policy, display_id, after) ==
            IF policy # None
            THEN Result(policy, <<"'">> \o display_id \o <<"'">>, after)
            ELSE Result("needs-review", <<"'">> \o display_id \o sNoPolicy, after)
    IN  IF token.type = "LPAREN"
        THEN Parenthesized(_parse_expression(self, tokens, pos + 1, license_policies))
        ELSE IF token.type = "LICENSE_REF"
        THEN Reference(_find_license_policy(self, token.value, license_policies,
                                            FALSE))
        ELSE IF token.type = "LICENSE_ID"
        THEN License(_find_license_policy(self, token.value, license_policies,
                                          or_later),
                     token.value \o (IF or_later THEN <<"+">> ELSE <<>>),
                     IF or_later THEN pos + 2 ELSE pos + 1)
        ELSE Result("needs-review", sUnexpectedToken \o TokenRepr(token), pos)

-----------------------------------------------------------------------------
(* The call stack of the recursive descent.  Every '(' that                *)
(* _parse_simple_expression descends through puts five more frames on the  *)
(* stack (_parse_expression, the OR, AND and WITH levels and               *)
(* _parse_simple_expression again); the interpreter raises RecursionError  *)
(* when the stack is full, and no level of the parser catches it.  A '('   *)
(* is consumed by nothing but a descent and a ')' by nothing but the       *)
(* return from one, so the descents open at a position are the '('         *)
(* consumed before it less the ')' consumed before it.                     *)

\* the nested descents through '(' that the interpreter's stack has room for
DescentLimit == 2

\* the descents open once the tokens from pos up to upto are consumed
OpenDescents(tokens, pos, upto) ==
    LET consumed == (pos + 1..upto) \cap DOMAIN tokens
    IN  Cardinality({i \in consumed : tokens[i].type = "LPAREN"})
            - Cardinality({i \in consumed : tokens[i].type = "RPAREN"})

\* the deepest nesting of descents of a parse that consumes the tokens from
\* pos up to last
Descents(tokens, pos, last) ==
    SetMax({OpenDescents(tokens, pos, upto) : upto \in pos..last})

\* a call of _parse_expression as its caller sees it: the triple returned,
\* or the RecursionError that leaves it
Returning(result) ==
    [policy |-> result.policy, expl |-> result.expl, pos |-> result.pos,
     raised |-> None]

Raising(pos) ==
    [policy |-> None, expl |-> <<>>, pos |-> pos, raised |-> "RecursionError"]

CallParseExpression(self, tokens, pos, license_policies) ==
    LET Call(result) ==
            IF Descents(tokens, pos, result.pos) > DescentLimit
            THEN Raising(pos)
            ELSE Returning(result)
    IN  Call(_parse_expression(self, tokens, pos, license_policies))

sFailedToParse == <<"F","a","i","l","e","d"," ","t","o"," ","p","a","r","s","e"," ","l","i","c","e","n","s","e"," ","e","x","p","r","e","s","s","i","o","n",":"," ">>

-----------------------------------------------------------------------------
(* parse_and_evaluate *)

sNO_LICENSE_FOUND == <<"N","O","-","L","I","C","E","N","S","E","-","F","O","U","N","D">>

sNOASSERTION == <<"N","O","A","S","S","E","R","T","I","O","N">>

sNONE == <<"N","O","N","E">>

sNoLicenseFound == <<"N","o"," ","l","i","c","e","n","s","e"," ","f","o","u","n","d">>

\* The depth of nested parse_and_evaluate frames at which the interpreter
\* gives up with RecursionError.
RecursionLimit == 3

\* What one call of parse_and_evaluate does: the pair it returns (policy,
\* explanation) or the exception that leaves it (raised), and, as a record of
\* its run, how many combined-alias lookups it made and whether it tokenized.
Outcome(policy, explanation, raised, lookups, tokenized) ==
    [policy |-> policy, explanation |-> explanation, raised |-> raised,
     lookups |-> lookups, tokenized |-> tokenized]

\* IsSentinel without 'NONE' in the list
IsSentinel_WithoutNONE(expression) ==
    expression = <<>> \/ expression \in {sNO_LICENSE_FOUND, sNOASSERTION}

\* not expression or expression in ['NO-LICENSE-FOUND', 'NOASSERTION', 'NONE']
IsSentinel(expression) ==
    expression = <<>> \/ expression \in {sNO_LICENSE_FOUND, sNOASSERTION, sNONE}

\* parse_and_evaluate without the combined-alias lookup
parse_and_evaluate_NoCombinedLookup(self, expression0, license_policies, depth) ==
    IF IsSentinel(expression0)
    THEN Outcome("needs-review", sNoLicenseFound, None, 0, FALSE)
    ELSE LET aliased == _apply_aliases_to_expression(self, strip(expression0))
             Evaluate(parsed) ==
                 IF parsed.raised # None
                 THEN Outcome("needs-review", sFailedToParse \o aliased, None, 1, TRUE)
                 ELSE Outcome(parsed.policy, parsed.expl, None, 1, TRUE)
         IN  Evaluate(CallParseExpression(self, _tokenize(aliased), 0,
                                          license_policies))

\* depth counts the frames of parse_and_evaluate below this one
RECURSIVE parse_and_evaluate(_, _, _, _)
parse_and_evaluate(self, expression0, license_policies, depth) ==
    IF IsSentinel(expression0)
    THEN Outcome("needs-review", sNoLicenseFound, None, 0, FALSE)
    ELSE
    LET expression == strip(expression0)
        expr_lower == lower(expression)
    IN  IF DictHas(self.combined_aliases, expr_lower)
        THEN IF depth + 1 >= RecursionLimit
             THEN Outcome(None, <<>>, "RecursionError", 1, FALSE)
             ELSE LET inner == parse_and_evaluate(self,
                                   DictGet(self.combined_aliases, expr_lower),
                                   license_policies, depth + 1)
                  IN  [inner EXCEPT !.lookups = @ + 1]
        ELSE LET aliased == _apply_aliases_to_expression(self, expression)
                 Evaluate(parsed) ==
                     IF parsed.raised # None
                     THEN Outcome("needs-review", sFailedToParse \o aliased, None,
                                  1, TRUE)
                     ELSE Outcome(parsed.policy, parsed.expl, None, 1, TRUE)
             IN  Evaluate(CallParseExpression(self, _tokenize(aliased), 0,
                                            license_policies))

-----------------------------------------------------------------------------
(* license_resolver.py: LicenseResolver.                                   *)
(* A str is a sequence of characters; Python's None, where a str may stand *)
(* too, is PyNone, which no sequence of single characters equals.          *)

PyNone == <<"None">>

\* not x, for x a str or None
Falsy(x) == x = PyNone \/ x = <<>>

\* the characters of s at the positions of the set, in order
Pick(s, at) ==
    [k \in 1..Cardinality(at) |->
        s[CHOOSE i \in at : Cardinality({j \in at : j <= i}) = k]]

\* the end of the whitespace that starts at position i of s
WhitespaceEnd(s, i) ==
    SetMin({j \in i..Len(s) : j = Len(s) \/ ~isspace(s[j + 1])})

\* the start of the whitespace that ends at position i of s
WhitespaceStart(s, i) ==
    SetMax({j \in 0..i : j = 0 \/ ~isspace(s[j])})

\* re.sub(r'\s+', ' ', s)
CollapseWhitespace(s) ==
    LET first == {i \in 1..Len(s) : ~isspace(s[i]) \/ i = 1 \/ ~isspace(s[i - 1])}
        t     == Pick(s, first)
    IN  [k \in 1..Len(t) |-> IF isspace(t[k]) THEN " " ELSE t[k]]

sthe == <<"t","h","e">>

slicense == <<"l","i","c","e","n","s","e">>

slicence == <<"l","i","c","e","n","c","e">>

sversion == <<"v","e","r","s","i","o","n">>

sSpv == <<" ","v">>

\* re.sub(r'^(the\s+)', '', s)
StripThe(s) ==
    IF startswith(s, sthe) /\ Len(s) > Len(sthe) /\ isspace(s[Len(sthe) + 1])
    THEN Slice(s, WhitespaceEnd(s, Len(sthe)), Len(s))
    ELSE s

\* re.sub(r'\s+(license|licence)(\s*$)', ' license', s)
LicenseSuffix(s) ==
    LET body == WhitespaceStart(s, Len(s))      \* s without trailing whitespace
        word == body - Len(slicense)
    IN  IF /\ word >= 1
           /\ Slice(s, word, body) \in {slicense, slicence}
           /\ isspace(s[word])
        THEN Slice(s, 0, WhitespaceStart(s, word)) \o <<" ">> \o slicense
        ELSE s

\* re.sub(r'\s*v\.?\s*', ' v', s), from position i of s on
RECURSIVE SubV(_, _)
SubV(s, i) ==
    LET at == {c \in i..(Len(s) - 1) : s[c + 1] = "v"}
    IN  IF at = {} THEN Slice(s, i, Len(s))
        ELSE LET c     == SetMin(at)
                 start == IF WhitespaceStart(s, c) > i THEN WhitespaceStart(s, c) ELSE i
                 dot   == IF c + 1 < Len(s) /\ s[c + 2] = "." THEN c + 2 ELSE c + 1
             IN  Slice(s, i, start) \o sSpv \o SubV(s, WhitespaceEnd(s, dot))

\* re.sub(r'\s*version\s+', ' v', s), from position i of s on
RECURSIVE SubVersion(_, _)
SubVersion(s, i) ==
    LET at == {c \in Occurrences(s, sversion) :
                  /\ c >= i
                  /\ c + Len(sversion) < Len(s)
                  /\ isspace(s[c + Len(sversion) + 1])}
    IN  IF at = {} THEN Slice(s, i, Len(s))
        ELSE LET c     == SetMin(at)
                 start == IF WhitespaceStart(s, c) > i THEN WhitespaceStart(s, c) ELSE i
             IN  Slice(s, i, start) \o sSpv
                     \o SubVersion(s, WhitespaceEnd(s, c + Len(sversion)))

\* re.sub(r'[,\(\)]', '', s)
DropPunctuation(s) == SelectSeq(s, LAMBDA c : c \notin {",", "(", ")"})

_normalize_license_name(license_name) ==
    IF Falsy(license_name) THEN <<>>
    ELSE LET lowered   == CollapseWhitespace(lower(strip(license_name)))
             suffixed  == LicenseSuffix(StripThe(lowered))
             versioned == SubVersion(SubV(suffixed, 0), 0)
         IN  strip(CollapseWhitespace(DropPunctuation(versioned)))

\* s.split(sep) for a non-empty sep, from position i of s on
RECURSIVE SplitFrom(_, _, _)
SplitFrom(s, sep, i) ==
    LET at == {c \in Occurrences(s, sep) : c >= i}
    IN  IF at = {} THEN <<Slice(s, i, Len(s))>>
        ELSE <<Slice(s, i, SetMin(at))>> \o SplitFrom(s, sep, SetMin(at) + Len(sep))

split(s, sep) == SplitFrom(s, sep, 0)

(* The regular expressions of the pattern table are literals, optional     *)
(* literals (c?) and the wildcard .* between them.                         *)

\* the items of a piece of pattern without wildcard: each a literal
\* character (\c is the character c), optional when a ? follows
RECURSIVE PatternItems(_)
PatternItems(piece) ==
    IF piece = <<>> THEN <<>>
    ELSE LET n        == IF piece[1] = "\\" THEN 2 ELSE 1
             optional == Len(piece) > n /\ piece[n + 1] = "?"
             rest     == SubSeq(piece, n + (IF optional THEN 2 ELSE 1), Len(piece))
         IN  <<[char |-> piece[n], optional |-> optional]>> \o PatternItems(rest)

\* the texts the items match
RECURSIVE ItemTexts(_)
ItemTexts(items) ==
    IF items = <<>> THEN {<<>>}
    ELSE LET rest == ItemTexts(Tail(items))
         IN  {<<items[1].char>> \o t : t \in rest}
                 \cup (IF items[1].optional THEN rest ELSE {})

\* the ends of the matches of the piece in text that start at or after from
PieceEnds(text, from, piece) ==
    UNION {{c + Len(t) : c \in {d \in Occurrences(text, t) : d >= from}} :
              t \in ItemTexts(PatternItems(piece))}

\* the pieces match in text one after the other, from position from on
RECURSIVE PiecesMatch(_, _, _)
PiecesMatch(text, from, pieces) ==
    \/ pieces = <<>>
    \/ /\ PieceEnds(text, from, pieces[1]) # {}
       /\ PiecesMatch(text, SetMin(PieceEnds(text, from, pieces[1])), Tail(pieces))

\* re.search(pattern, text) finds a match
re_search(pattern, text) == PiecesMatch(text, 0, split(pattern, <<".", "*">>))

(* difflib.SequenceMatcher(None, a, b).ratio(), as the fraction m / t *)

\* the length of the longest common run of a from i and b from j, within
\* a[:ahi] and b[:bhi]
RunLength(a, b, i, ahi, j, bhi) ==
    SetMax({k \in 0..(IF ahi - i < bhi - j THEN ahi - i ELSE bhi - j) :
               \A d \in 0..(k - 1) : a[i + d + 1] = b[j + d + 1]})

\* SequenceMatcher.find_longest_match: the longest block, the earliest in
\* a, and of those the earliest in b; size 0 when no element is shared
find_longest_match(a, b, alo, ahi, blo, bhi) ==
    LET starts == {p \in (alo..(ahi - 1)) \X (blo..(bhi - 1)) :
                      a[p[1] + 1] = b[p[2] + 1]}
    IN  IF starts = {} THEN [a |-> alo, b |-> blo, size |-> 0]
        ELSE LET size == SetMax({RunLength(a, b, p[1], ahi, p[2], bhi) : p \in starts})
                 long == {p \in starts : RunLength(a, b, p[1], ahi, p[2], bhi) = size}
                 i    == SetMin({p[1] : p \in long})
                 j    == SetMin({p[2] : p \in {q \in long : q[1] = i}})
             IN  [a |-> i, b |-> j, size |-> size]

\* the sum of the sizes of SequenceMatcher.get_matching_blocks
RECURSIVE MatchingSize(_, _, _, _, _, _)
MatchingSize(a, b, alo, ahi, blo, bhi) ==
    LET Around(x) ==
            IF x.size = 0 THEN 0
            ELSE x.size
                 + (IF alo < x.a /\ blo < x.b
                    THEN MatchingSize(a, b, alo, x.a, blo, x.b) ELSE 0)
                 + (IF x.a + x.size < ahi /\ x.b + x.size < bhi
                    THEN MatchingSize(a, b, x.a + x.size, ahi, x.b + x.size, bhi)
                    ELSE 0)
    IN  Around(find_longest_match(a, b, alo, ahi, blo, bhi))

Fraction(m, t) == [m |-> m, t |-> t]

\* 2.0 * matches / length, and 1.0 when both are empty
ratio(a, b) ==
    IF Len(a) + Len(b) = 0 THEN Fraction(1, 1)
    ELSE Fraction(2 * MatchingSize(a, b, 0, Len(a), 0, Len(b)), Len(a) + Len(b))

FractionGreater(x, y) == x.m * y.t > y.m * x.t

FractionAtLeast(x, y) == x.m * y.t >= y.m * x.t

(* The resolver object.  A dict that may be None is a record: set is     *)
(* FALSE for None, and items are the (key, value) pairs in insertion order. *)

NoDict == [set |-> FALSE, items |-> <<>>]

SomeDict(items) == [set |-> TRUE, items |-> items]

\* LicenseResolver.__init__; _fetch_cache is the lru_cache of _fetch_spdx_data
LicenseResolver(api_key, ai_provider) ==
    [api_key          |-> api_key,
     ai_provider      |-> ai_provider,
     _spdx_licenses   |-> NoDict,
     _spdx_exceptions |-> NoDict,
     _fetch_cache     |-> [set |-> FALSE, licenses |-> <<>>, exceptions |-> <<>>]]

\* licenses_dict[license_id] = {'name': ..., 'id': ...} over the list
RECURSIVE LicensesDict(_, _)
LicensesDict(licenses, acc) ==
    IF licenses = <<>> THEN acc
    ELSE LicensesDict(Tail(licenses),
                      DictSet(acc, licenses[1].licenseId,
                              [name |-> licenses[1].name, id |-> licenses[1].licenseId]))

\* exceptions_dict[exception_id] = {'name': ..., 'id': ...} over the list
RECURSIVE ExceptionsDict(_, _)
ExceptionsDict(exceptions, acc) ==
    IF exceptions = <<>> THEN acc
    ELSE ExceptionsDict(Tail(exceptions),
                        DictSet(acc, exceptions[1].licenseExceptionId,
                                [name |-> exceptions[1].name,
                                 id   |-> exceptions[1].licenseExceptionId]))

\* _fetch_spdx_data: fetched is what the two requests of this call would
\* bring (ok is FALSE when a request or its decoding raises); a cached
\* result is returned without a request
_fetch_spdx_data(self, fetched) ==
    IF self._fetch_cache.set
    THEN [self |-> self, licenses |-> self._fetch_cache.licenses,
          exceptions |-> self._fetch_cache.exceptions, ran |-> <<>>]
    ELSE LET licenses   == IF fetched.ok THEN LicensesDict(fetched.licenses, <<>>)
                           ELSE <<>>
             exceptions == IF fetched.ok THEN ExceptionsDict(fetched.exceptions, <<>>)
                           ELSE <<>>
         IN  [self |-> [self EXCEPT !._fetch_cache =
                           [set |-> TRUE, licenses |-> licenses,
                            exceptions |-> exceptions]],
              licenses |-> licenses, exceptions |-> exceptions, ran |-> <<"fetch">>]

sMIT == <<"M","I","T">>

sGPL20only == <<"G","P","L","-","2",".","0","-","o","n","l","y">>

sApache20 == <<"A","p","a","c","h","e","-","2",".","0">>

sBSD3Clause == <<"B","S","D","-","3","-","C","l","a","u","s","e">>

sEPL20 == <<"E","P","L","-","2",".","0">>

sEPL10 == <<"E","P","L","-","1",".","0">>

sMPL20 == <<"M","P","L","-","2",".","0">>

sGPL30only == <<"G","P","L","-","3",".","0","-","o","n","l","y">>

sLGPL30only == <<"L","G","P","L","-","3",".","0","-","o","n","l","y">>

sLGPL21only == <<"L","G","P","L","-","2",".","1","-","o","n","l","y">>

\* the regular expression and the SPDX id of each pattern, in dict order
patterns ==
    << << <<"a","p","a","c","h","e",".","*","s","o","f","t","w","a","r","e",".","*",
            "l","i","c","e","n","s","e",".","*","v","?","\\",".","?","2","\\",".","?",
            "0","?">>, sApache20 >>,
       << <<"a","p","a","c","h","e",".","*","l","i","c","e","n","s","e",".","*",
            "v","?","\\",".","?","2","\\",".","?","0","?">>, sApache20 >>,
       << <<"b","s","d",".","*","3",".","*","c","l","a","u","s","e">>, sBSD3Clause >>,
       << <<"b","s","d",".","*","3">>, sBSD3Clause >>,
       << <<"m","i","t",".","*","l","i","c","e","n","s","e">>, sMIT >>,
       << <<"e","c","l","i","p","s","e",".","*","p","u","b","l","i","c",".","*",
            "l","i","c","e","n","s","e",".","*","v","?","\\",".","?","2","\\",".","?",
            "0","?">>, sEPL20 >>,
       << <<"e","c","l","i","p","s","e",".","*","p","u","b","l","i","c",".","*",
            "l","i","c","e","n","s","e",".","*","v","?","\\",".","?","1","\\",".","?",
            "0","?">>, sEPL10 >>,
       << <<"m","o","z","i","l","l","a",".","*","p","u","b","l","i","c",".","*",
            "l","i","c","e","n","s","e",".","*","v","?","\\",".","?","2","\\",".","?",
            "0","?">>, sMPL20 >>,
       << <<"g","n","u",".","*","g","e","n","e","r","a","l",".","*","p","u","b","l",
            "i","c",".","*","l","i","c","e","n","s","e",".","*","v","?","\\",".","?",
            "3">>, sGPL30only >>,
       << <<"g","n","u",".","*","g","e","n","e","r","a","l",".","*","p","u","b","l",
            "i","c",".","*","l","i","c","e","n","s","e",".","*","v","?","\\",".","?",
            "2">>, sGPL20only >>,
       << <<"l","g","p","l",".","*","v","?","\\",".","?","3">>, sLGPL30only >>,
       << <<"l","g","p","l",".","*","v","?","\\",".","?","2","\\",".","?","1">>,
          sLGPL21only >> >>

\* the exact-match loop: the first license whose lowercased id or whose
\* normalized name is the normalized input
ExactMatch(spdx_licenses, normalized_input) ==
    LET hits == {i \in DOMAIN spdx_licenses :
                    \/ normalized_input = lower(spdx_licenses[i][1])
                    \/ normalized_input =
                           _normalize_license_name(spdx_licenses[i][2].name)}
    IN  IF hits = {} THEN PyNone ELSE spdx_licenses[SetMin(hits)][1]

\* the pattern loop: the id of the first pattern that is found in the
\* input and whose id is in the SPDX list
PatternMatch(spdx_licenses, normalized_input) ==
    LET hits == {i \in DOMAIN patterns :
                    /\ re_search(patterns[i][1], normalized_input)
                    /\ DictHas(spdx_licenses, patterns[i][2])}
    IN  IF hits = {} THEN PyNone ELSE patterns[SetMin(hits)][2]

\* one comparison of the fuzzy loop: best is (best_match, best_ratio)
Better(best, candidate, license_id, min_ratio) ==
    IF FractionGreater(candidate, best.ratio) /\ FractionAtLeast(candidate, min_ratio)
    THEN [match |-> license_id, ratio |-> candidate]
    ELSE best

\* the fuzzy loop over the licenses from the i-th on
RECURSIVE FuzzyLoop(_, _, _, _, _)
FuzzyLoop(spdx_licenses, normalized_input, min_ratio, i, best) ==
    IF i > Len(spdx_licenses) THEN best.match
    ELSE LET license_id      == spdx_licenses[i][1]
             normalized_name == _normalize_license_name(spdx_licenses[i][2].name)
             ById(by_name) ==
                 Better(by_name, ratio(normalized_input, lower(license_id)),
                        license_id, min_ratio)
         IN  FuzzyLoop(spdx_licenses, normalized_input, min_ratio, i + 1,
                       ById(Better(best, ratio(normalized_input, normalized_name),
                                   license_id, min_ratio)))

\* the three loops of _fuzzy_match_spdx in the order pattern, exact, fuzzy
LocalStrategies_PatternFirst(spdx_licenses, normalized_input, min_ratio) ==
    LET Fuzzy(best_match) ==
            [match |-> best_match, ran |-> <<"pattern", "exact", "fuzzy">>]
        Exact(exact) ==
            IF exact # PyNone THEN [match |-> exact, ran |-> <<"pattern", "exact">>]
            ELSE Fuzzy(FuzzyLoop(spdx_licenses, normalized_input, min_ratio, 1,
                                 [match |-> PyNone, ratio |-> Fraction(0, 1)]))
        Pattern(pattern) ==
            IF pattern # PyNone THEN [match |-> pattern, ran |-> <<"pattern">>]
            ELSE Exact(ExactMatch(spdx_licenses, normalized_input))
    IN  Pattern(PatternMatch(spdx_licenses, normalized_input))

\* the three loops of _fuzzy_match_spdx, each entered when the one before
\* has returned nothing: the match and the loops that ran
LocalStrategies(spdx_licenses, normalized_input, min_ratio) ==
    LET Fuzzy(best_match) ==
            [match |-> best_match, ran |-> <<"exact", "pattern", "fuzzy">>]
        Pattern(pattern) ==
            IF pattern # PyNone THEN [match |-> pattern, ran |-> <<"exact", "pattern">>]
            ELSE Fuzzy(FuzzyLoop(spdx_licenses, normalized_input, min_ratio, 1,
                                 [match |-> PyNone, ratio |-> Fraction(0, 1)]))
        Exact(exact) ==
            IF exact # PyNone THEN [match |-> exact, ran |-> <<"exact">>]
            ELSE Pattern(PatternMatch(spdx_licenses, normalized_input))
    IN  Exact(ExactMatch(spdx_licenses, normalized_input))

\* _fuzzy_match_spdx fetching the lists on every call, cached or not
_fuzzy_match_spdx_AlwaysFetch(self, license_name, min_ratio, fetched) ==
    IF Falsy(license_name)
    THEN [self |-> self, match |-> PyNone, ran |-> <<>>]
    ELSE
    LET Load(data) ==
            [self |-> [data.self EXCEPT
                          !._spdx_licenses   = SomeDict(data.licenses),
                          !._spdx_exceptions = SomeDict(data.exceptions)],
             ran |-> data.ran]
        Found(loaded, local) ==
            [self  |-> loaded.self,
             match |-> local.match,
             ran   |-> Append(loaded.ran, "match") \o local.ran]
        Search(loaded) ==
            IF loaded.self._spdx_licenses.items = <<>>
            THEN [self |-> loaded.self, match |-> PyNone, ran |-> loaded.ran]
            ELSE Found(loaded,
                       LocalStrategies(loaded.self._spdx_licenses.items,
                                       _normalize_license_name(license_name),
                                       min_ratio))
    IN  Search(Load(_fetch_spdx_data([self EXCEPT !._fetch_cache.set = FALSE],
                                     fetched)))

\* _fuzzy_match_spdx: the match (PyNone for None), the resolver afterwards
\* and what ran: "fetch" for a fetch of the SPDX lists, "match" for the
\* comparison of the name with the list, followed by the loops that ran
_fuzzy_match_spdx(self, license_name, min_ratio, fetched) ==
    IF Falsy(license_name)
    THEN [self |-> self, match |-> PyNone, ran |-> <<>>]
    ELSE
    LET Load(data) ==
            [self |-> [data.self EXCEPT
                          !._spdx_licenses   = SomeDict(data.licenses),
                          !._spdx_exceptions = SomeDict(data.exceptions)],
             ran |-> data.ran]
        Found(loaded, local) ==
            [self  |-> loaded.self,
             match |-> local.match,
             ran   |-> Append(loaded.ran, "match") \o local.ran]
        Search(loaded) ==
            IF loaded.self._spdx_licenses.items = <<>>
            THEN [self |-> loaded.self, match |-> PyNone, ran |-> loaded.ran]
            ELSE Found(loaded,
                       LocalStrategies(loaded.self._spdx_licenses.items,
                                       _normalize_license_name(license_name),
                                       min_ratio))
    IN  Search(IF self._spdx_licenses.set
               THEN [self |-> self, ran |-> <<>>]
               ELSE Load(_fetch_spdx_data(self, fetched)))

sUNKNOWN == <<"U","N","K","N","O","W","N">>

sgithub == <<"g","i","t","h","u","b">>

sopenai == <<"o","p","e","n","a","i">>

sazure == <<"a","z","u","r","e">>

\* AiContent that takes "UNKNOWN" for an id
AiContent_KeepUNKNOWN(content) ==
    IF strip(content) # <<>> THEN strip(content) ELSE PyNone

\* content.strip() when it is non-empty and not "UNKNOWN", else None
AiContent(content) ==
    IF strip(content) # <<>> /\ strip(content) # sUNKNOWN
    THEN strip(content) ELSE PyNone

\* _github_models_resolve: reply is what the request of this call brings:
\* a response with a status code and a content, or an exception
_github_models_resolve(reply) ==
    IF reply.raises THEN PyNone
    ELSE IF reply.status_code = 200 THEN AiContent(reply.content)
    ELSE PyNone

\* _openai_resolve: the client raises on a failed request
_openai_resolve(reply) ==
    IF reply.raises \/ reply.status_code # 200 THEN PyNone
    ELSE AiContent(reply.content)

\* _ai_resolve_license: the match and what ran: "ai" for a request to the
\* provider
_ai_resolve_license(self, license_name, reply) ==
    IF Falsy(self.api_key) \/ Falsy(license_name)
    THEN [match |-> PyNone, ran |-> <<>>]
    ELSE IF self.ai_provider = sgithub
    THEN [match |-> _github_models_resolve(reply), ran |-> <<"ai">>]
    ELSE IF self.ai_provider = sopenai
    THEN [match |-> _openai_resolve(reply), ran |-> <<"ai">>]
    ELSE [match |-> PyNone, ran |-> <<>>]

\* not license_name or license_name.strip() == ""
IsEmptyName_NoStrip(license_name) == Falsy(license_name)

IsEmptyName(license_name) == Falsy(license_name) \/ strip(license_name) = <<>>

\* Resolution with a confidence computed per call: certain when the name
\* was an SPDX id already
Resolution_CertainWhenUnchanged(original, resolved, method, confidence) ==
    [original |-> original, resolved |-> resolved, method |-> method,
     confidence |-> IF resolved = original THEN 10 ELSE confidence]

\* the dict resolve_license returns; the confidence is in tenths
Resolution(original, resolved, method, confidence) ==
    [original |-> original, resolved |-> resolved, method |-> method,
     confidence |-> confidence]

\* resolve_license: the dict returned, the resolver afterwards and what ran
resolve_license(self, license_name, fetched, reply) ==
    IF IsEmptyName(license_name)
    THEN [self |-> self, ran |-> <<>>,
          result |-> Resolution(license_name, PyNone, "empty", 0)]
    ELSE
    LET Assisted(spdx, ai) ==
            IF ~Falsy(ai.match)
            THEN [self |-> spdx.self, ran |-> spdx.ran \o ai.ran,
                  result |-> Resolution(license_name, ai.match, "ai_assisted", 7)]
            ELSE [self |-> spdx.self, ran |-> spdx.ran \o ai.ran,
                  result |-> Resolution(license_name, PyNone, "unresolved", 0)]
        Matched(spdx) ==
            IF ~Falsy(spdx.match)
            THEN [self |-> spdx.self, ran |-> spdx.ran,
                  result |-> Resolution(license_name, spdx.match, "spdx_fuzzy", 9)]
            ELSE Assisted(spdx, _ai_resolve_license(spdx.self, license_name, reply))
    IN  Matched(_fuzzy_match_spdx(self, license_name, Fraction(8, 10), fetched))

-----------------------------------------------------------------------------
(* audit_licenses.py.  A package policy is a record with the fields purl   *)
(* and usagePolicy; a policy without the key 'purl' has purl "", the       *)
(* default of policy.get('purl', '').                                      *)

\* fnmatch.fnmatch(name, pat) on a POSIX system, for patterns of literal
\* characters, * and ?: the whole name must match
RECURSIVE fnmatch(_, _)
fnmatch(name, pat) ==
    IF pat = <<>> THEN name = <<>>
    ELSE IF pat[1] = "*"
    THEN \E k \in 0..Len(name) :
             fnmatch(SubSeq(name, k + 1, Len(name)), Tail(pat))
    ELSE IF name = <<>> THEN FALSE
    ELSE IF pat[1] = "?" THEN fnmatch(Tail(name), Tail(pat))
    ELSE name[1] = pat[1] /\ fnmatch(Tail(name), Tail(pat))

\* None where a package policy may stand: no policy returned has an empty
\* purl
NoPackagePolicy == [purl |-> <<>>, usagePolicy |-> None]

\* find_package_policy: the first policy whose purl, without its query
\* parameters, matches the purl without its query parameters; None when
\* there is none
find_package_policy(purl, package_policies) ==
    LET normalized_purl == split_first(purl, "?")
        hits == {i \in DOMAIN package_policies :
                    /\ split_first(package_policies[i].purl, "?") # <<>>
                    /\ fnmatch(normalized_purl,
                               split_first(package_policies[i].purl, "?"))}
    IN  IF hits = {} THEN NoPackagePolicy ELSE package_policies[SetMin(hits)]

\* merged[policy_id] = policy for every policy of the list that has an id;
\* a policy without the key 'id' has id ""
RECURSIVE MergeById(_, _)
MergeById(merged, policies) ==
    IF policies = <<>> THEN merged
    ELSE MergeById(IF policies[1].id # <<>>
                   THEN DictSet(merged, policies[1].id, policies[1])
                   ELSE merged,
                   Tail(policies))

\* list(merged.values())
values(d) == [i \in DOMAIN d |-> d[i][2]]

\* merge_license_policies
merge_license_policies(base_policies, override_policies) ==
    IF override_policies = <<>> THEN base_policies
    ELSE IF base_policies = <<>> THEN override_policies
    ELSE values(MergeById(MergeById(<<>>, base_policies), override_policies))

spurl == <<"p","u","r","l">>

spurl_not_found == <<"p","u","r","l","-","n","o","t","-","f","o","u","n","d">>

snon_standard == <<"n","o","n","-","s","t","a","n","d","a","r","d">>

sWeirdUnknownLicense == <<"W","e","i","r","d"," ","u","n","k","n","o","w","n"," ","l","i","c","e","n","s","e">>

sNA == <<"N","/","A">>

sPkgGithubActions == <<"p","k","g",":","g","i","t","h","u","b","a","c","t","i","o","n","s","/">>

\* x in an f-string, for x a str or None
Str(x) == IF x = PyNone THEN <<"N","o","n","e">> ELSE x

\* get_purl: a component without the key 'externalRefs' has none
get_purl(component) ==
    LET refs  == component.externalRefs
        purls == {i \in DOMAIN refs : refs[i].referenceType = spurl}
    IN  IF purls = {} THEN spurl_not_found
        ELSE refs[SetMin(purls)].referenceLocator

\* re.match(pattern, string) finds a match at the start of the string, for
\* patterns of literal characters (\c is the character c), the dot and .*
RECURSIVE re_match(_, _)
re_match(pattern, string) ==
    IF pattern = <<>> THEN TRUE
    ELSE IF pattern[1] = "\\" /\ Len(pattern) >= 2
    THEN /\ string # <<>>
         /\ string[1] = pattern[2]
         /\ re_match(SubSeq(pattern, 3, Len(pattern)), Tail(string))
    ELSE IF pattern[1] = "." /\ Len(pattern) >= 2 /\ pattern[2] = "*"
    THEN \E k \in 0..Len(string) :
             re_match(SubSeq(pattern, 3, Len(pattern)),
                      SubSeq(string, k + 1, Len(string)))
    ELSE /\ string # <<>>
         /\ pattern[1] = "." \/ string[1] = pattern[1]
         /\ re_match(Tail(pattern), Tail(string))

\* audit_component_with_resolution: some internal dependency pattern matches
\* the purl or the name of the component
IsInternal(component_name, purl, internal_dependency_patterns) ==
    \E i \in DOMAIN internal_dependency_patterns :
        \/ ~Falsy(purl) /\ re_match(internal_dependency_patterns[i], purl)
        \/ /\ ~Falsy(component_name)
           /\ re_match(internal_dependency_patterns[i], component_name)

\* find_license_policy: the Outcome of the parse_and_evaluate it calls on a
\* new parser, whose policy it returns
find_license_policy(license_id, license_policies, license_aliases, combined_aliases) ==
    parse_and_evaluate(SPDXExpressionParser(license_aliases, combined_aliases),
                       license_id, license_policies, 0)

\* a component without the key 'enrichment'
NoEnrichment ==
    [set |-> FALSE, licenseResolutions |-> <<>>, auditResolution |-> <<>>]

\* the original name the enrichment recorded for the license, the license
\* itself when it recorded none
OriginalLicenseName(component, license_concluded) ==
    LET resolutions == component.enrichment.licenseResolutions
        hits == {i \in DOMAIN resolutions :
                    resolutions[i].resolved = license_concluded}
    IN  IF hits = {} \/ resolutions[SetMin(hits)].original = PyNone
        THEN license_concluded
        ELSE resolutions[SetMin(hits)].original

\* one audit result; a key the dict does not have is None, and resolution
\* is the empty list or holds the resolution info
AuditResult(package, purl, license, policy, resolution, license_original) ==
    [package |-> package, purl |-> purl, license |-> license,
     policy |-> policy, resolution |-> resolution,
     license_original |-> license_original]

\* if x, for x a policy
Truthy(x) == x # None /\ x # ""

\* audit_component_with_resolution: the list returned or the exception that
\* leaves the call, the component and the resolver afterwards, and what ran:
\* "evaluate" for a call of find_license_policy, and what the resolver ran.
\* license_resolver is [set |-> FALSE] for None.
audit_component_with_resolution(component, license_policies, package_policies, license_resolver, internal_dependency_patterns, license_aliases, combined_aliases, fetched, reply) ==
    LET component_name    == component.name
        component_version == component.versionInfo
        purl              == get_purl(component)
        license_concluded == component.licenseConcluded
        package == Str(component_name) \o <<"@">> \o Str(component_version)
        Returned(result) ==
            [results |-> <<result>>, raised |-> None, component |-> component,
             resolver |-> license_resolver.object, ran |-> <<>>]
        Raised(raised, after, ran) ==
            [results |-> <<>>, raised |-> raised, component |-> after.component,
             resolver |-> after.resolver, ran |-> ran]
        \* 4. and 5.: the policy of the (potentially resolved) license
        Build(found, resolution) ==
            IF found.raised # None
            THEN Raised(found.raised, resolution.after,
                        Append(resolution.ran, "evaluate"))
            ELSE [results |->
                      <<AuditResult(package, purl, resolution.final_license,
                                    IF Truthy(found.policy) THEN found.policy
                                    ELSE "needs-review",
                                    resolution.resolution_info,
                                    IF resolution.resolution_info # <<>>
                                    THEN license_concluded ELSE PyNone)>>,
                  raised |-> None, component |-> resolution.after.component,
                  resolver |-> resolution.after.resolver,
                  ran |-> Append(resolution.ran, "evaluate")]
        Check(resolution) ==
            Build(find_license_policy(resolution.final_license, license_policies,
                                      license_aliases, combined_aliases),
                  resolution)
        Before == [component |-> component, resolver |-> license_resolver.object]
        Unresolved(after, ran) ==
            [final_license |-> license_concluded, resolution_info |-> <<>>,
             after |-> after, ran |-> ran]
        \* 3.: the resolver's answer for the original name
        Answered(original_license_name, r, evaluated) ==
            IF ~Falsy(r.result.resolved)
            THEN LET resolution_info ==
                         [original |-> original_license_name,
                          resolved |-> r.result.resolved,
                          method |-> r.result.method,
                          confidence |-> r.result.confidence]
                 IN  [final_license |-> r.result.resolved,
                      resolution_info |-> <<resolution_info>>,
                      after |->
                          [component |->
                               [component EXCEPT
                                   !.enrichment.set = TRUE,
                                   !.enrichment.auditResolution =
                                       IF @ = <<>> THEN <<resolution_info>>
                                       ELSE @],
                           resolver |-> r.self],
                      ran |-> evaluated \o r.ran]
            ELSE Unresolved([component |-> component, resolver |-> r.self],
                            evaluated \o r.ran)
        Resolve3(original_license_name, evaluated) ==
            Answered(original_license_name,
                     resolve_license(license_resolver.object,
                                     original_license_name, fetched, reply),
                     Append(evaluated, "resolve"))
        Resolution3(needs_resolution, evaluated) ==
            IF needs_resolution.raised # None
            THEN Raised(needs_resolution.raised, Before, evaluated)
            ELSE Check(IF needs_resolution.policy = None /\ license_resolver.set
                       THEN Resolve3(OriginalLicenseName(component,
                                                         license_concluded),
                                     evaluated)
                       ELSE Unresolved(Before, evaluated))
        Listed == license_concluded \in {snon_standard, sWeirdUnknownLicense}
        \* 1.: a package policy was found
        Overridden(package_policy) ==
            Returned(AuditResult(package, purl,
                         IF Falsy(license_concluded) THEN sNA
                         ELSE license_concluded,
                         package_policy.usagePolicy \o " (package policy)",
                         <<>>, PyNone))
        Audit(package_policy) ==
            IF package_policy # NoPackagePolicy
            THEN Overridden(package_policy)
            ELSE IF Falsy(license_concluded)
                    \/ license_concluded \in {sNOASSERTION, sNONE}
            THEN Returned(AuditResult(package, purl, sNO_LICENSE_FOUND,
                              IF startswith(purl, sPkgGithubActions)
                              THEN "allow" ELSE "needs-review",
                              <<>>, PyNone))
            ELSE Resolution3(IF Listed THEN Outcome(None, <<>>, None, 0, FALSE)
                             ELSE find_license_policy(license_concluded,
                                      license_policies, license_aliases,
                                      combined_aliases),
                             IF Listed THEN <<>> ELSE <<"evaluate">>)
    IN  IF IsInternal(component_name, purl, internal_dependency_patterns)
        THEN Returned(AuditResult(package, purl, PyNone, "internal",
                                  <<>>, PyNone))
        ELSE Audit(find_package_policy(purl, package_policies))

-----------------------------------------------------------------------------
(* The state: one parser object and the policy table of the audit run, and *)
(* the call in progress.                                                   *)

VARIABLES
    self,               \* the SPDXExpressionParser of the run
    license_policies,   \* the policy table of the run
    resolver,           \* the LicenseResolver of the run
    fetches,            \* the fetches of the SPDX lists made so far
    pc,                 \* "idle", or "done" when a call has returned or raised
    op,                 \* the method that was called, "none" when idle
    arg,                \* the argument the caller passed
    outcome             \* what the call did, NoOutcome when idle

vars == <<self, license_policies, resolver, fetches, pc, op, arg, outcome>>

NoOutcome == Outcome(None, <<>>, None, 0, FALSE)

\* a caller evaluates one expression: outcome is the Outcome of the call
Call(expression) ==
    /\ pc = "idle"
    /\ op' = "parse_and_evaluate"
    /\ arg' = expression
    /\ outcome' = parse_and_evaluate(self, expression, license_policies, 0)
    /\ pc' = "done"
    /\ UNCHANGED <<self, license_policies, resolver, fetches>>

\* a caller normalizes one license id: outcome is the id returned
Normalize(license_id) ==
    /\ pc = "idle"
    /\ op' = "_normalize_license_id"
    /\ arg' = license_id
    /\ outcome' = _normalize_license_id(self, license_id)
    /\ pc' = "done"
    /\ UNCHANGED <<self, license_policies, resolver, fetches>>

\* the fetches a resolver can make before the model stops counting
MaxFetches == 2

\* a caller resolves one license name; the network answers the requests the
\* call makes with one of the fetch outcomes and one of the replies; outcome
\* is the dict returned, what ran, and the reply the AI provider had for the
\* call
Resolve(license_name, fetch_outcomes, replies) ==
    /\ pc = "idle"
    /\ fetches < MaxFetches
    /\ \E fetched \in fetch_outcomes, reply \in replies :
          \E r \in {resolve_license(resolver, license_name, fetched, reply)} :
              /\ resolver' = r.self
              /\ fetches' = fetches + Len(SelectSeq(r.ran, LAMBDA e : e = "fetch"))
              /\ outcome' = [result |-> r.result, ran |-> r.ran, reply |-> reply]
    /\ op' = "resolve_license"
    /\ arg' = license_name
    /\ pc' = "done"
    /\ UNCHANGED <<self, license_policies>>

\* the caller takes the result; the objects keep what the call left in them
Return ==
    /\ pc = "done"
    /\ pc' = "idle"
    /\ op' = "none"
    /\ arg' = <<>>
    /\ outcome' = NoOutcome
    /\ UNCHANGED <<self, license_policies, resolver, fetches>>

Evaluated == pc = "done" /\ op = "parse_and_evaluate"

\* a caller looks one license id up in the policy table of the run: arg is
\* the pair of arguments, outcome the policy returned or None
FindLicensePolicy(license_id, or_later) ==
    /\ pc = "idle"
    /\ op' = "_find_license_policy"
    /\ arg' = [license_id |-> license_id, or_later |-> or_later]
    /\ outcome' = _find_license_policy(self, license_id, license_policies, or_later)
    /\ pc' = "done"
    /\ UNCHANGED <<self, license_policies, resolver, fetches>>

\* a caller tokenizes one expression: _tokenize strips it and enters its
\* while loop with no token and pos = 0; outcome is the frame of the call
TokenizeStart(expression) ==
    /\ pc = "idle"
    /\ op' = "_tokenize"
    /\ arg' = expression
    /\ outcome' = [expression |-> strip(expression), tokens |-> <<>>, pos |-> 0]
    /\ pc' = "tokenizing"
    /\ UNCHANGED <<self, license_policies, resolver, fetches>>

\* one iteration of the while loop of _tokenize, taken while pos < len
TokenizeIterate ==
    /\ pc = "tokenizing"
    /\ outcome.pos < Len(outcome.expression)
    /\ \E step \in {TokenizeStep(outcome.expression, outcome.pos)} :
          outcome' = [outcome EXCEPT !.tokens = @ \o step.emit,
                                     !.pos = step.pos]
    /\ UNCHANGED <<self, license_policies, resolver, fetches, pc, op, arg>>

\* the while loop of _tokenize is left: the EOF token is appended and the
\* token list returned
TokenizeFinish ==
    /\ pc = "tokenizing"
    /\ outcome.pos >= Len(outcome.expression)
    /\ outcome' = [outcome EXCEPT
                      !.tokens = @ \o <<Token("EOF", <<>>, Len(outcome.expression))>>]
    /\ pc' = "done"
    /\ UNCHANGED <<self, license_policies, resolver, fetches, op, arg>>

\* a caller parses a token list from a position on: arg is the pair of
\* arguments, outcome the (policy, explanation, new_position) returned or
\* the exception raised
ParseExpression(tokens, pos) ==
    /\ pc = "idle"
    /\ op' = "_parse_expression"
    /\ arg' = [tokens |-> tokens, pos |-> pos]
    /\ outcome' = CallParseExpression(self, tokens, pos, license_policies)
    /\ pc' = "done"
    /\ UNCHANGED <<self, license_policies, resolver, fetches>>

\* a caller merges two lists of license policies: arg is the pair of lists,
\* outcome the list returned
MergeLicensePolicies(base_policies, override_policies) ==
    /\ pc = "idle"
    /\ op' = "merge_license_policies"
    /\ arg' = [base_policies |-> base_policies,
               override_policies |-> override_policies]
    /\ outcome' = merge_license_policies(base_policies, override_policies)
    /\ pc' = "done"
    /\ UNCHANGED <<self, license_policies, resolver, fetches>>

\* a caller audits one component with the policy table of the run; the
\* network answers the requests the resolver makes with one of the fetch
\* outcomes and one of the replies; arg holds the arguments, outcome the
\* list returned or the exception, the component afterwards and what ran
AuditComponent(component, package_policies, with_resolver, internal_dependency_patterns, license_aliases, combined_aliases, fetch_outcomes, replies) ==
    /\ pc = "idle"
    /\ fetches < MaxFetches
    /\ \E fetched \in fetch_outcomes, reply \in replies :
          \E a \in {audit_component_with_resolution(component, license_policies,
                         package_policies,
                         [set |-> with_resolver, object |-> resolver],
                         internal_dependency_patterns, license_aliases,
                         combined_aliases, fetched, reply)} :
              /\ resolver' = a.resolver
              /\ fetches' = fetches + Len(SelectSeq(a.ran, LAMBDA e : e = "fetch"))
              /\ outcome' = [results |-> a.results, raised |-> a.raised,
                             component |-> a.component, ran |-> a.ran]
    /\ op' = "audit_component_with_resolution"
    /\ arg' = [component |-> component, package_policies |-> package_policies,
               license_resolver |-> with_resolver,
               internal_dependency_patterns |-> internal_dependency_patterns,
               license_aliases |-> license_aliases,
               combined_aliases |-> combined_aliases]
    /\ pc' = "done"
    /\ UNCHANGED <<self, license_policies>>

\* a caller looks a purl up in a list of package policies: arg is the pair
\* of arguments, outcome the policy returned or None
FindPackagePolicy(purl, package_policies) ==
    /\ pc = "idle"
    /\ op' = "find_package_policy"
    /\ arg' = [purl |-> purl, package_policies |-> package_policies]
    /\ outcome' = find_package_policy(purl, package_policies)
    /\ pc' = "done"
    /\ UNCHANGED <<self, license_policies, resolver, fetches>>

-----------------------------------------------------------------------------
(* Inputs of the bounded checks *)

smit == <<"m","i","t">>

sMit == <<"M","i","t">>

sEPL == <<"E","P","L">>

sepl == <<"e","p","l">>

sGPL == <<"G","P","L">>

sXYZ == <<"X","Y","Z">>

snone == <<"n","o","n","e">>

sMITLicense == <<"M","I","T"," ","L","i","c","e","n","s","e">>

smitlicense == <<"m","i","t"," ","l","i","c","e","n","s","e">>

sMITPlus == <<"M","I","T","+">>

\* the longest policy table
MaxPolicies == 2

\* every sequence of at most n elements of the set
RECURSIVE SeqsUpTo(_, _)
SeqsUpTo(elements, n) ==
    IF n = 0 THEN {<<>>}
    ELSE LET shorter == SeqsUpTo(elements, n - 1)
         IN  shorter \cup
             {Append(t, e) : t \in {u \in shorter : Len(u) = n - 1},
                             e \in elements}

DistinctIds(table) ==
    \A i, j \in DOMAIN table : table[i].id = table[j].id => i = j

PolicyEntries(ids) == [id : ids, usagePolicy : UsagePolicies]

\* the policy tables of at most MaxPolicies entries over the ids, no id twice
TablesOver(ids) ==
    {t \in SeqsUpTo(PolicyEntries(ids), MaxPolicies) : DistinctIds(t)}

ParsersOver(license_alias_inputs, combined_alias_inputs) ==
    {SPDXExpressionParser(la, ca) : la \in license_alias_inputs,
                                    ca \in combined_alias_inputs}

InitWith(parsers, tables) ==
    /\ self \in parsers
    /\ license_policies \in tables
    /\ resolver = LicenseResolver(PyNone, sgithub)
    /\ fetches = 0
    /\ pc = "idle"
    /\ op = "none"
    /\ arg = <<>>
    /\ outcome = NoOutcome

-----------------------------------------------------------------------------
(* Spec: single identifiers, in any letter case, looked up in tables of   *)
(* distinct licenses, with and without aliases.                            *)

\* licenseAliases of policy.json, as given (keys in any case)
LicenseAliasInputs ==
    { <<>>,
      << <<sMITLicense, sMIT>> >>,
      << <<smit, sEPL>> >> }

\* combinedLicenseAliases of policy.json, as given
CombinedAliasInputs ==
    { <<>>,
      << <<sMITLicense, sEPL>> >> }

Expressions ==
    { sMIT, smit, sMit, sEPL, sepl, sXYZ, sMITLicense, smitlicense, sMITPlus }

Init ==
    InitWith(ParsersOver(LicenseAliasInputs, CombinedAliasInputs),
             TablesOver({sMIT, sEPL, sGPL}))

Next ==
    \/ \E e \in Expressions : Call(e)
    \/ Return

Spec == Init /\ [][Next]_vars

(* C1: for every policy table and every entry e of it,                     *)
(* parse_and_evaluate(e.id, table) returns e.usagePolicy as its policy.    *)
C1_EntryIdEvaluatesToItsPolicy ==
    Evaluated =>
        \A i \in DOMAIN license_policies :
            arg = license_policies[i].id
                => outcome.policy = license_policies[i].usagePolicy

(* C8: license identifiers are matched case-insensitively: for every entry *)
(* e and every s that equals e.id up to letter case, parse_and_evaluate(s) *)
(* returns the same policy as parse_and_evaluate(e.id).                    *)
C8_CaseInsensitive ==
    Evaluated =>
        \A i \in DOMAIN license_policies :
            lower(arg) = lower(license_policies[i].id)
                => outcome.policy =
                       parse_and_evaluate(self, license_policies[i].id,
                                          license_policies, 0).policy

-----------------------------------------------------------------------------
(* SpecGrammar: AND chains, OR chains and arbitrary words of the grammar's *)
(* tokens, evaluated without aliases against every table over two ids.     *)

sSpANDSp == <<" ","A","N","D"," ">>

sSpandSp == <<" ","a","n","d"," ">>

sSpORSp == <<" ","O","R"," ">>

sSporSp == <<" ","o","r"," ">>

sMITorGPLParen == <<"(","M","I","T"," ","O","R"," ","G","P","L",")">>

sMITandGPL == <<"M","I","T"," ","A","N","D"," ","G","P","L">>

\* the most operands of a chain
MaxOperands == 3

\* the most words of a word expression
MaxWords == 3

\* an operand of AND is a WITH-level expression
AndOperands == {sMIT, sGPL, sXYZ, sMITorGPLParen}

\* an operand of OR is an AND-level expression
OrOperands == {sMIT, sGPL, sXYZ, sMITandGPL}

OperandSeqs(operands) ==
    {ops \in SeqsUpTo(operands, MaxOperands) : Len(ops) >= 2}

AndChains ==
    {join(w, ops) : w \in {sSpANDSp, sSpandSp}, ops \in OperandSeqs(AndOperands)}

OrChains ==
    {join(w, ops) : w \in {sSpORSp, sSporSp}, ops \in OperandSeqs(OrOperands)}

Words == {sMIT, sGPL, sAND, sOR, sWITH, <<"(">>, <<")">>}

WordExpressions ==
    {join(<<" ">>, ws) : ws \in SeqsUpTo(Words, MaxWords) \ {<<>>}}

InitGrammar ==
    InitWith(ParsersOver({<<>>}, {<<>>}), TablesOver({sMIT, sGPL}))

NextGrammar ==
    \/ \E e \in AndChains : Call(e)
    \/ \E e \in OrChains : Call(e)
    \/ \E e \in WordExpressions : Call(e)
    \/ Return

SpecGrammar == InitGrammar /\ [][NextGrammar]_vars

\* the policy of each operand, evaluated on its own against the table
OperandPolicies(ops) ==
    [i \in DOMAIN ops |->
        parse_and_evaluate(self, ops[i], license_policies, 0).policy]

\* the operands of a chain: the expression split at the operator word,
\* when that gives two or more of the operands
ChainOperands(expression, word, operands) ==
    LET ops == split(expression, word)
    IN  IF Len(ops) >= 2 /\ \A i \in DOMAIN ops : ops[i] \in operands
        THEN ops ELSE <<>>

(* C2: an AND expression over n >= 2 operands evaluates to allow exactly   *)
(* when every operand is allow, to deny when at least one operand is deny, *)
(* and to needs-review otherwise.                                          *)
C2_AndOverOperands ==
    Evaluated =>
        \A w \in {sSpANDSp, sSpandSp} :
            LET ops == ChainOperands(arg, w, AndOperands)
                p   == OperandPolicies(ops)
            IN  ops # <<>> =>
                    outcome.policy =
                        IF \A i \in DOMAIN p : p[i] = "allow" THEN "allow"
                        ELSE IF \E i \in DOMAIN p : p[i] = "deny" THEN "deny"
                        ELSE "needs-review"

\* an AND of MaxOperands operands, one allowed and one denied, came out deny
C2_Witness ==
    /\ Evaluated
    /\ outcome.policy = "deny"
    /\ LET ops == ChainOperands(arg, sSpANDSp, AndOperands)
       IN  /\ Len(ops) = MaxOperands
           /\ \E i, j \in DOMAIN ops :
                 /\ OperandPolicies(ops)[i] = "allow"
                 /\ OperandPolicies(ops)[j] = "deny"

(* C3: an OR expression over n >= 2 operands evaluates to allow when at    *)
(* least one operand is allow, to deny exactly when no operand is allow    *)
(* and every operand is deny, and to needs-review otherwise.               *)
C3_OrOverOperands ==
    Evaluated =>
        \A w \in {sSpORSp, sSporSp} :
            LET ops == ChainOperands(arg, w, OrOperands)
                p   == OperandPolicies(ops)
            IN  ops # <<>> =>
                    outcome.policy =
                        IF \E i \in DOMAIN p : p[i] = "allow" THEN "allow"
                        ELSE IF \A i \in DOMAIN p : p[i] = "deny" THEN "deny"
                        ELSE "needs-review"

\* an OR of MaxOperands operands, one allowed and one denied, came out allow
C3_Witness ==
    /\ Evaluated
    /\ outcome.policy = "allow"
    /\ LET ops == ChainOperands(arg, sSpORSp, OrOperands)
       IN  /\ Len(ops) = MaxOperands
           /\ \E i, j \in DOMAIN ops :
                 /\ OperandPolicies(ops)[i] = "allow"
                 /\ OperandPolicies(ops)[j] = "deny"

\* the token types that can end an operand, and those that can begin one
OperandEnd == {"LICENSE_ID", "LICENSE_REF", "ADDITION_REF", "PLUS", "RPAREN"}

OperandStart == {"LICENSE_ID", "LICENSE_REF", "ADDITION_REF", "LPAREN"}

\* an operator with no operand on its left or on its right
MissingOperand(tokens) ==
    \E k \in DOMAIN tokens :
        /\ tokens[k].type \in {"AND", "OR", "WITH"}
        /\ \/ k = 1
           \/ tokens[k - 1].type \notin OperandEnd
           \/ k = Len(tokens)
           \/ tokens[k + 1].type \notin OperandStart

\* two operands with no operator between them
AdjacentOperands(tokens) ==
    \E k \in DOMAIN tokens :
        /\ k < Len(tokens)
        /\ tokens[k].type \in OperandEnd
        /\ tokens[k + 1].type \in OperandStart

\* tokens other than EOF left after the parser's complete expression
UnconsumedTokens(tokens) ==
    LET parsed == _parse_expression(self, tokens, 0, license_policies)
    IN  parsed.pos < Len(tokens) /\ tokens[parsed.pos + 1].type # "EOF"

Malformed(expression) ==
    LET tokens == _tokenize(expression)
    IN  \/ MissingOperand(tokens)
        \/ AdjacentOperands(tokens)
        \/ UnconsumedTokens(tokens)

(* C4: every malformed expression (an operator with a missing operand, two *)
(* operands with no operator between them, tokens left unconsumed after a  *)
(* complete expression) evaluates to needs-review and never to allow.      *)
C4_MalformedNeedsReview ==
    (Evaluated /\ Malformed(arg)) => outcome.policy = "needs-review"

-----------------------------------------------------------------------------
(* SpecCyclic: combined aliases that lead back to their own key.           *)

CyclicAliasInputs ==
    { << <<smit, sMIT>> >>,
      << <<smit, sEPL>>, <<sepl, sMIT>> >>,
      << <<smit, sEPL>> >>,
      << <<smit, sEPL>>, <<sepl, sGPL>> >>,
      << <<smitlicense, sMIT>> >> }

CyclicExpressions == {sMIT, smit, sEPL, sGPL, sXYZ, sMITLicense}

InitCyclic ==
    InitWith(ParsersOver({<<>>}, CyclicAliasInputs), TablesOver({sMIT, sEPL}))

NextCyclic ==
    \/ \E e \in CyclicExpressions : Call(e)
    \/ Return

SpecCyclic == InitCyclic /\ [][NextCyclic]_vars

\* following the combined aliases from the expression comes back to a key
\* already replaced
RECURSIVE LeadsBackToKey(_, _, _)
LeadsBackToKey(combined_aliases, expression, seen) ==
    LET key == lower(strip(expression))
    IN  /\ expression \notin {<<>>, sNO_LICENSE_FOUND, sNOASSERTION, sNONE}
        /\ DictHas(combined_aliases, key)
        /\ \/ key \in seen
           \/ LeadsBackToKey(combined_aliases, DictGet(combined_aliases, key),
                             seen \cup {key})

(* C5: combined-alias substitution is bounded: when the replacement of a   *)
(* combined alias is, up to case, its own key or leads back to it through  *)
(* other combined aliases, the evaluation returns needs-review and does    *)
(* not raise.                                                              *)
C5_CyclicAliasNeedsReview ==
    (Evaluated /\ LeadsBackToKey(self.combined_aliases, arg, {}))
        => (outcome.raised = None /\ outcome.policy = "needs-review")

-----------------------------------------------------------------------------
(* SpecSentinel: the no-license markers, with policy entries and aliases   *)
(* for the markers themselves.                                             *)

sSpNONE == <<" ","N","O","N","E">>

SentinelLicenseAliasInputs ==
    { <<>>, << <<sNONE, sMIT>> >> }

SentinelCombinedAliasInputs ==
    { <<>>,
      << <<sNONE, sMIT>> >>,
      << <<sNOASSERTION, sMIT>>, <<sNO_LICENSE_FOUND, sMIT>> >>,
      << << <<>>, sMIT>> >> }

SentinelExpressions ==
    { <<>>, sNONE, sNOASSERTION, sNO_LICENSE_FOUND, snone, sSpNONE, sMIT }

InitSentinel ==
    InitWith(ParsersOver(SentinelLicenseAliasInputs, SentinelCombinedAliasInputs),
             TablesOver({sMIT, sNONE, sNOASSERTION}))

NextSentinel ==
    \/ \E e \in SentinelExpressions : Call(e)
    \/ Return

SpecSentinel == InitSentinel /\ [][NextSentinel]_vars

(* C6: an expression that is exactly "", NOASSERTION, NONE or              *)
(* NO-LICENSE-FOUND evaluates to needs-review with the explanation         *)
(* "No license found", for every policy table and alias table, and neither *)
(* the combined-alias lookup nor the tokenizer runs.                       *)
C6_SentinelNeedsReview ==
    (Evaluated /\ arg \in {<<>>, sNOASSERTION, sNONE, sNO_LICENSE_FOUND})
        => /\ outcome.policy = "needs-review"
           /\ outcome.explanation = sNoLicenseFound
           /\ outcome.raised = None
           /\ outcome.lookups = 0
           /\ ~outcome.tokenized

\* NONE was evaluated with a combined alias and an allow entry for NONE
C6_Witness ==
    /\ Evaluated
    /\ arg = sNONE
    /\ DictHas(self.combined_aliases, snone)
    /\ \E i \in DOMAIN license_policies :
          /\ license_policies[i].id = sNONE
          /\ license_policies[i].usagePolicy = "allow"
    /\ outcome.policy = "needs-review"

-----------------------------------------------------------------------------
(* SpecWith: a WITH expression against tables of combined-form entries.    *)

sGPL20withClasspath ==
    <<"G","P","L","-","2",".","0","-","w","i","t","h","-",
      "c","l","a","s","s","p","a","t","h","-","e","x","c","e","p","t","i","o","n">>

sGPL20onlywithClasspath ==
    <<"G","P","L","-","2",".","0","-","o","n","l","y","-","w","i","t","h","-",
      "c","l","a","s","s","p","a","t","h","-","e","x","c","e","p","t","i","o","n">>

sGPL20onlyWITHClasspath20 ==
    <<"G","P","L","-","2",".","0","-","o","n","l","y"," ","W","I","T","H"," ",
      "C","l","a","s","s","p","a","t","h","-","e","x","c","e","p","t","i","o","n",
      "-","2",".","0">>

sGPL20WITHClasspath20 ==
    <<"G","P","L","-","2",".","0"," ","W","I","T","H"," ",
      "C","l","a","s","s","p","a","t","h","-","e","x","c","e","p","t","i","o","n",
      "-","2",".","0">>

sGPL20onlyWITH ==
    <<"G","P","L","-","2",".","0","-","o","n","l","y"," ","W","I","T","H">>

WithExpressions ==
    { sGPL20onlyWITHClasspath20, sGPL20WITHClasspath20, sGPL20onlyWITH,
      sGPL20only, sGPL20withClasspath }

InitWithForms ==
    InitWith(ParsersOver({<<>>}, {<<>>}),
             TablesOver({sGPL20only, sGPL20withClasspath, sGPL20onlywithClasspath}))

NextWith ==
    \/ \E e \in WithExpressions : Call(e)
    \/ Return

SpecWith == InitWithForms /\ [][NextWith]_vars

(* C7: with a table containing GPL-2.0-with-classpath-exception: allow,    *)
(* 'GPL-2.0-only WITH Classpath-exception-2.0' evaluates to allow, the     *)
(* result being the one of the combined-form entry.                        *)
C7_ClasspathCombinedForm ==
    ( /\ Evaluated
      /\ arg = sGPL20onlyWITHClasspath20
      /\ \E i \in DOMAIN license_policies :
            /\ license_policies[i].id = sGPL20withClasspath
            /\ license_policies[i].usagePolicy = "allow" )
        => /\ outcome.policy = "allow"
           /\ outcome.explanation = <<"'">> \o sGPL20onlyWITHClasspath20 \o <<"'">>

-----------------------------------------------------------------------------
(* SpecNormalize: _normalize_license_id over alias maps with chained       *)
(* aliases and padded values.                                              *)

sSpmitSp == <<" ","m","i","t"," ">>

sSpMITSp == <<" ","M","I","T"," ">>

NormalizeAliasInputs ==
    { <<>>,
      << <<sMITLicense, sMIT>> >>,
      << <<smit, sMIT>> >>,
      << <<smit, sEPL>>, <<sepl, sGPL>> >>,
      << <<smit, sSpMITSp>> >>,
      << <<smit, <<>> >> >> }

LicenseIds ==
    { <<>>, <<" ">>, sMIT, smit, sSpmitSp, sEPL, sepl, sXYZ, sMITLicense }

InitNormalize ==
    InitWith(ParsersOver(NormalizeAliasInputs, {<<>>}), TablesOver({sMIT}))

NextNormalize ==
    \/ \E x \in LicenseIds : Normalize(x)
    \/ Return

SpecNormalize == InitNormalize /\ [][NextNormalize]_vars

Normalized == pc = "done" /\ op = "_normalize_license_id"

(* C9, as stated: _normalize_license_id is idempotent for every alias map  *)
(* and every id: normalizing the normalized id returns it unchanged.       *)
C9_NormalizeIdempotent ==
    Normalized => _normalize_license_id(self, outcome) = outcome

\* every alias value is returned unchanged by the lookup: it has no
\* surrounding whitespace and is not, up to case, a key of another value
AliasValuesAreFixed ==
    \A i \in DOMAIN self.license_aliases :
        LET v == self.license_aliases[i][2]
        IN  /\ v = strip(v)
            /\ DictHas(self.license_aliases, lower(v))
                  => DictGet(self.license_aliases, lower(v)) = v

(* C9, amended: _normalize_license_id is idempotent for every id when      *)
(* every alias value has no surrounding whitespace and is not, up to case, *)
(* an alias key that maps to a different value.                            *)
C9_NormalizeIdempotentOnFixedValues ==
    (Normalized /\ AliasValuesAreFixed)
        => _normalize_license_id(self, outcome) = outcome

\* a padded id was replaced by its alias, in a map whose values are fixed
C9_Witness ==
    /\ Normalized
    /\ AliasValuesAreFixed
    /\ arg = sSpmitSp
    /\ DictHas(self.license_aliases, smit)
    /\ outcome = sMIT

-----------------------------------------------------------------------------
(* SpecResolver: names resolved by one resolver, with and without an API   *)
(* key, against a network that fails or answers.                           *)

skey == <<"k","e","y">>

sFoo == <<"F","o","o">>

sMITLisense == <<"M","I","T"," ","L","i","s","e","n","s","e">>

sApache2 == <<"A","p","a","c","h","e"," ","2">>

sApacheLicense20 ==
    <<"A","p","a","c","h","e"," ","L","i","c","e","n","s","e"," ","2",".","0">>

sApacheLicenseVersion20 ==
    <<"A","p","a","c","h","e"," ","L","i","c","e","n","s","e",","," ",
      "V","e","r","s","i","o","n"," ","2",".","0">>

Resolvers ==
    {LicenseResolver(k, p) : k \in {PyNone, skey}, p \in {sgithub, sopenai, sazure}}

LicenseNames ==
    { PyNone, <<>>, <<" ">>, <<" ", "\t">>,
      sMIT, sMITLicense, sMITLisense, sApache2, sApacheLicenseVersion20, sFoo }

FetchOutcomes ==
    { [ok |-> FALSE, licenses |-> <<>>, exceptions |-> <<>>],
      [ok |-> TRUE, licenses |-> <<>>, exceptions |-> <<>>],
      [ok |-> TRUE,
       licenses |-> << [licenseId |-> sMIT, name |-> sMITLicense] >>,
       exceptions |-> <<>>],
      [ok |-> TRUE,
       licenses |-> << [licenseId |-> sMIT, name |-> sMITLicense],
                       [licenseId |-> sApache20, name |-> sApacheLicense20] >>,
       exceptions |-> <<>>] }

Replies ==
    { [raises |-> TRUE,  status_code |-> 200, content |-> <<>>],
      [raises |-> FALSE, status_code |-> 200, content |-> sEPL20],
      [raises |-> FALSE, status_code |-> 200, content |-> sUNKNOWN],
      [raises |-> FALSE, status_code |-> 500, content |-> <<>>] }

InitResolver ==
    /\ self = SPDXExpressionParser(<<>>, <<>>)
    /\ license_policies = <<>>
    /\ resolver \in Resolvers
    /\ fetches = 0
    /\ pc = "idle"
    /\ op = "none"
    /\ arg = <<>>
    /\ outcome = NoOutcome

NextResolver ==
    \/ \E n \in LicenseNames : Resolve(n, FetchOutcomes, Replies)
    \/ Return

SpecResolver == InitResolver /\ [][NextResolver]_vars

Resolved == pc = "done" /\ op = "resolve_license"

\* None, the empty string, or whitespace only
BlankName(license_name) ==
    \/ license_name = PyNone
    \/ \A i \in DOMAIN license_name : license_name[i] \in {" ", "\t"}

(* C10: resolve_license on an empty, None or whitespace-only name returns  *)
(* resolved None with method 'empty' and confidence 0.0, and no strategy   *)
(* runs: no fetch, no matching, no AI call, and the resolver is left as it *)
(* was.                                                                    *)
C10_EmptyNameRunsNoStrategy ==
    [][ (pc = "idle" /\ pc' = "done" /\ op' = "resolve_license" /\ BlankName(arg'))
            => /\ outcome'.result = Resolution(arg', PyNone, "empty", 0)
               /\ outcome'.ran = <<>>
               /\ resolver' = resolver
               /\ fetches' = fetches ]_vars

\* a whitespace-only name was resolved by a resolver that has an API key
\* and has not loaded the SPDX lists
C10_Witness ==
    /\ Resolved
    /\ arg = <<" ", "\t">>
    /\ resolver.api_key = skey
    /\ ~resolver._spdx_licenses.set
    /\ outcome.result.method = "empty"

\* the strategies that ran in the call, in the order they ran
StrategiesRun ==
    SelectSeq(outcome.ran, LAMBDA e : e \in {"exact", "pattern", "fuzzy", "ai"})

\* what each local strategy yields for the name on the list the resolver
\* holds after the call, taken on its own
ExactYield ==
    ExactMatch(resolver._spdx_licenses.items, _normalize_license_name(arg))

PatternYield ==
    PatternMatch(resolver._spdx_licenses.items, _normalize_license_name(arg))

FuzzyYield ==
    FuzzyLoop(resolver._spdx_licenses.items, _normalize_license_name(arg),
              Fraction(8, 10), 1, [match |-> PyNone, ratio |-> Fraction(0, 1)])

(* C11: within one resolve_license call the strategies run in the order    *)
(* exact, pattern, fuzzy, AI; the call returns the id of the first         *)
(* strategy that yields one and runs no strategy after it; the AI lookup   *)
(* is issued only when the three local strategies yielded nothing and an   *)
(* API key is configured.                                                  *)
C11_StrategyOrder ==
    (Resolved /\ ~BlankName(arg)) =>
        /\ StrategiesRun \in { <<>>, <<"ai">>, <<"exact">>, <<"exact", "pattern">>,
                               <<"exact", "pattern", "fuzzy">>,
                               <<"exact", "pattern", "fuzzy", "ai">> }
        /\ ExactYield # PyNone =>
               /\ StrategiesRun = <<"exact">>
               /\ outcome.result.resolved = ExactYield
        /\ (ExactYield = PyNone /\ PatternYield # PyNone) =>
               /\ StrategiesRun = <<"exact", "pattern">>
               /\ outcome.result.resolved = PatternYield
        /\ (ExactYield = PyNone /\ PatternYield = PyNone /\ FuzzyYield # PyNone) =>
               /\ StrategiesRun = <<"exact", "pattern", "fuzzy">>
               /\ outcome.result.resolved = FuzzyYield
        /\ (\E i \in DOMAIN outcome.ran : outcome.ran[i] = "ai") =>
               /\ ExactYield = PyNone /\ PatternYield = PyNone /\ FuzzyYield = PyNone
               /\ ~Falsy(resolver.api_key)

\* a name that no local strategy resolves went through all four strategies
\* and took the id the AI lookup answered
C11_Witness ==
    /\ Resolved
    /\ arg = sFoo
    /\ StrategiesRun = <<"exact", "pattern", "fuzzy", "ai">>
    /\ outcome.result.resolved = sEPL20

\* the local strategy that gave the id of a 'spdx_fuzzy' result
WinningStrategy == StrategiesRun[Len(StrategiesRun)]

(* C12: in every result of resolve_license the confidence is fixed by the  *)
(* method: 1.0 for an exact or a pattern match, 0.9 for a fuzzy match, 0.7 *)
(* for an AI-assisted match, 0.0 for unresolved and for empty.             *)
C12_ConfidencePerStrategy ==
    Resolved =>
        /\ outcome.result.resolved # PyNone =>
               outcome.result.confidence =
                   CASE WinningStrategy \in {"exact", "pattern"} -> 10
                     [] WinningStrategy = "fuzzy" -> 9
                     [] WinningStrategy = "ai" -> 7
        /\ outcome.result.resolved = PyNone =>
               /\ outcome.result.method \in {"unresolved", "empty"}
               /\ outcome.result.confidence = 0

(* C12, amended: the confidence is fixed by the method, and the methods    *)
(* are 'spdx_fuzzy' (0.9, for every id found locally, by exact, pattern or *)
(* fuzzy match alike), 'ai_assisted' (0.7), 'unresolved' and 'empty'       *)
(* (0.0).                                                                  *)
C12_ConfidencePerMethod ==
    Resolved =>
        /\ outcome.result.method \in {"spdx_fuzzy", "ai_assisted", "unresolved", "empty"}
        /\ outcome.result.confidence =
               CASE outcome.result.method = "spdx_fuzzy" -> 9
                 [] outcome.result.method = "ai_assisted" -> 7
                 [] OTHER -> 0
        /\ outcome.result.method = "spdx_fuzzy" <=>
               /\ outcome.result.resolved # PyNone
               /\ WinningStrategy \in {"exact", "pattern", "fuzzy"}
        /\ outcome.result.method = "ai_assisted" <=>
               /\ outcome.result.resolved # PyNone
               /\ WinningStrategy = "ai"

\* an SPDX id given as the name was found by the exact loop and reported
\* as 'spdx_fuzzy' with confidence 0.9
C12_Witness ==
    /\ Resolved
    /\ arg = sMIT
    /\ StrategiesRun = <<"exact">>
    /\ outcome.result.resolved = sMIT
    /\ outcome.result.method = "spdx_fuzzy"
    /\ outcome.result.confidence = 9

\* no local strategy yields an id for the name
LocalStrategiesFail ==
    ExactYield = PyNone /\ PatternYield = PyNone /\ FuzzyYield = PyNone

\* the AI lookup of the call gives no id: no API key, a timeout or
\* transport error (the request raises), a status other than 200, or the
\* answer UNKNOWN
AiLookupFails ==
    \/ Falsy(resolver.api_key)
    \/ outcome.reply.raises
    \/ outcome.reply.status_code # 200
    \/ strip(outcome.reply.content) = sUNKNOWN

(* C13: when the local strategies fail and the AI lookup times out, raises *)
(* a transport error, answers with a status other than 200, answers       *)
(* UNKNOWN, or no API key is configured, resolve_license returns resolved  *)
(* None with method 'unresolved' and confidence 0.0, as a value.           *)
C13_AiFailureIsUnresolved ==
    (Resolved /\ ~BlankName(arg) /\ LocalStrategiesFail /\ AiLookupFails) =>
        outcome.result =
            [original |-> arg, resolved |-> PyNone, method |-> "unresolved",
             confidence |-> 0]

\* the provider was asked for a name no local strategy resolves and
\* answered UNKNOWN with status 200
C13_Witness ==
    /\ Resolved
    /\ arg = sFoo
    /\ resolver.api_key = skey
    /\ LocalStrategiesFail
    /\ \E i \in DOMAIN outcome.ran : outcome.ran[i] = "ai"
    /\ ~outcome.reply.raises
    /\ outcome.reply.status_code = 200
    /\ outcome.reply.content = sUNKNOWN
    /\ outcome.result.method = "unresolved"

\* the curated patterns that are found in the normalized name
CoveringPatterns ==
    {i \in DOMAIN patterns : re_search(patterns[i][1], _normalize_license_name(arg))}

(* C14: when the SPDX table could not be fetched (it is empty), a name     *)
(* covered by a curated pattern, such as 'Apache License, Version 2.0', is *)
(* still resolved by pattern match.                                        *)
C14_PatternWithoutSpdxTable ==
    ( /\ Resolved /\ ~BlankName(arg)
      /\ resolver._spdx_licenses.items = <<>>
      /\ CoveringPatterns # {} ) =>
        /\ outcome.result.resolved = patterns[SetMin(CoveringPatterns)][2]
        /\ \E i \in DOMAIN outcome.ran : outcome.ran[i] = "pattern"

-----------------------------------------------------------------------------
(* SpecPackage: purls of two packages, with and without version and query  *)
(* parameters, looked up in lists of package policies.                     *)

sPkgA == <<"p","k","g",":","n","p","m","/","a">>

sPkgAB == <<"p","k","g",":","n","p","m","/","a","b">>

sPkgWildcard == <<"p","k","g",":","n","p","m","/","*">>

sAt1 == <<"@","1">>

sAt2 == <<"@","2">>

sQuery == <<"?","t","=","j">>

sOtherQuery == <<"?","x","=","1">>

ComponentPurls ==
    { sPkgA, sPkgA \o sAt1, sPkgA \o sAt2, sPkgA \o sAt1 \o sQuery,
      sPkgA \o sQuery, sPkgAB \o sAt1 }

PolicyPurls ==
    { <<>>, sPkgA, sPkgA \o sAt1, sPkgA \o sOtherQuery,
      sPkgA \o sAt1 \o sOtherQuery, sPkgWildcard }

MaxPackagePolicies == 2

PackagePolicyLists ==
    SeqsUpTo({[purl |-> u, usagePolicy |-> v] :
                 u \in PolicyPurls, v \in {"allow", "deny"}},
             MaxPackagePolicies)

InitPackage ==
    InitWith({SPDXExpressionParser(<<>>, <<>>)}, {<<>>})

NextPackage ==
    \/ \E u \in ComponentPurls, l \in PackagePolicyLists : FindPackagePolicy(u, l)
    \/ Return

SpecPackage == InitPackage /\ [][NextPackage]_vars

Found == pc = "done" /\ op = "find_package_policy"

\* the purl without its query parameters
WithoutQuery(purl) == split_first(purl, "?")

\* the package of a purl: what stands before the version
PackageOf(purl) == split_first(WithoutQuery(purl), "@")

\* a policy purl for a component purl: the same package at every version
\* when the policy purl carries no version, else the same package at the
\* same version
Covers(policy_purl, purl) ==
    /\ policy_purl # <<>>
    /\ IF HasChar(WithoutQuery(policy_purl), "@")
       THEN WithoutQuery(policy_purl) = WithoutQuery(purl)
       ELSE WithoutQuery(policy_purl) = PackageOf(purl)

\* no wildcard in the purls of the list
PlainPurls(package_policies) ==
    \A i \in DOMAIN package_policies : ~HasChar(package_policies[i].purl, "*")

(* C15: find_package_policy returns a policy whose purl carries no version *)
(* for a component purl of the same package at every version, the query    *)
(* parameters of both purls ignored; a policy whose purl carries a version *)
(* matches only that version.                                              *)
C15_VersionAgnosticPolicy ==
    (Found /\ PlainPurls(arg.package_policies)) =>
        LET covering == {i \in DOMAIN arg.package_policies :
                            Covers(arg.package_policies[i].purl, arg.purl)}
        IN  outcome = IF covering = {} THEN NoPackagePolicy
                      ELSE arg.package_policies[SetMin(covering)]

-----------------------------------------------------------------------------
(* SpecMerge: two lists of license policies merged; an id may occur more   *)
(* than once in a list, and an entry may have no id.                       *)

MaxMergePolicies == 2

MergeLists ==
    SeqsUpTo({[id |-> i, usagePolicy |-> v] :
                 i \in {sMIT, sGPL, <<>>}, v \in {"allow", "deny"}},
             MaxMergePolicies)

InitMerge ==
    InitWith({SPDXExpressionParser(<<>>, <<>>)}, {<<>>})

NextMerge ==
    \/ \E b \in MergeLists, o \in MergeLists : MergeLicensePolicies(b, o)
    \/ Return

SpecMerge == InitMerge /\ [][NextMerge]_vars

Merged == pc = "done" /\ op = "merge_license_policies"

\* the ids that occur in a list
IdsOf(policies) == {policies[i].id : i \in DOMAIN policies} \ {<<>>}

\* the entries of a list with the id
EntriesOf(policies, id) ==
    {policies[i] : i \in {j \in DOMAIN policies : policies[j].id = id}}

-----------------------------------------------------------------------------
(* SpecAudit: components with and without purl and license, audited with   *)
(* lists of package policies and of internal dependency patterns.          *)

sPkgGithubActionsA == <<"p","k","g",":","g","i","t","h","u","b","a","c","t","i","o","n","s","/","a">>

AuditComponents ==
    [name : {<<"a">>},
     versionInfo : {<<"1">>},
     externalRefs : {<<>>,
                     <<[referenceType |-> spurl,
                        referenceLocator |-> sPkgA \o sAt1]>>,
                     <<[referenceType |-> spurl,
                        referenceLocator |-> sPkgGithubActionsA \o sAt1]>>},
     licenseConcluded : {PyNone, sNOASSERTION, sNONE, sMIT, sGPL, snon_standard},
     enrichment : {NoEnrichment,
                   [set |-> TRUE,
                    licenseResolutions |->
                        <<[original |-> sMITLicense, resolved |-> snon_standard]>>,
                    auditResolution |-> <<>>]}]

AuditPackagePolicyLists ==
    SeqsUpTo({[purl |-> u, usagePolicy |-> v] :
                 u \in {sPkgA, sPkgA \o sAt1}, v \in {"allow", "deny"}},
             MaxPackagePolicies)

\* no pattern, a pattern for the purls of the package a, and one for the
\* component name
AuditPatterns == {<<>>, <<sPkgA>>, << <<"a">> >>}

AuditTables ==
    { <<>>,
      <<[id |-> sMIT, usagePolicy |-> "allow"], [id |-> sGPL, usagePolicy |-> "deny"]>>,
      <<[id |-> sMIT, usagePolicy |-> "deny"]>> }

AuditFetchOutcomes ==
    { [ok |-> FALSE, licenses |-> <<>>, exceptions |-> <<>>],
      [ok |-> TRUE,
       licenses |-> << [licenseId |-> sMIT, name |-> sMITLicense] >>,
       exceptions |-> <<>>] }

AuditReplies == { [raises |-> TRUE, status_code |-> 200, content |-> <<>>] }

InitAudit ==
    InitWith({SPDXExpressionParser(<<>>, <<>>)}, AuditTables)

NextAudit ==
    \/ \E c \in AuditComponents, l \in AuditPackagePolicyLists,
          w \in BOOLEAN, p \in AuditPatterns :
          AuditComponent(c, l, w, p, <<>>, <<>>, AuditFetchOutcomes, AuditReplies)
    \/ Return

SpecAudit == InitAudit /\ [][NextAudit]_vars

Audited == pc = "done" /\ op = "audit_component_with_resolution"

\* the component has no license
NoLicense(component) ==
    \/ Falsy(component.licenseConcluded)
    \/ component.licenseConcluded \in {sNOASSERTION, sNONE}

\* the policies of the list for the package of the purl
CoveringPolicies(package_policies, purl) ==
    {i \in DOMAIN package_policies : Covers(package_policies[i].purl, purl)}

(* C17: audit_component_with_resolution decides in a fixed order: a        *)
(* component that matches an internal dependency pattern is 'internal'     *)
(* whatever its package policy and license; otherwise a package policy for *)
(* its package decides whatever the license; otherwise a missing,          *)
(* NOASSERTION or NONE license gives needs-review, allow for a purl that   *)
(* starts with pkg:githubactions/; only otherwise is the license           *)
(* expression evaluated against the license policies.                      *)
C17_Precedence ==
    Audited =>
        LET component == arg.component
            purl      == get_purl(component)
            covering  == CoveringPolicies(arg.package_policies, purl)
            policy    == outcome.results[1].policy
            evaluated == \E i \in DOMAIN outcome.ran : outcome.ran[i] = "evaluate"
        IN  IF IsInternal(component.name, purl, arg.internal_dependency_patterns)
            THEN policy = "internal" /\ ~evaluated
            ELSE IF covering # {}
            THEN /\ policy = arg.package_policies[SetMin(covering)].usagePolicy
                                 \o " (package policy)"
                 /\ ~evaluated
            ELSE IF NoLicense(component)
            THEN /\ policy = IF startswith(purl, sPkgGithubActions)
                             THEN "allow" ELSE "needs-review"
                 /\ ~evaluated
            ELSE evaluated /\ policy \in UsagePolicies

-----------------------------------------------------------------------------
(* SpecKinds: expressions of every shape, with license aliases and         *)
(* combined aliases, one of them its own replacement, against every table  *)
(* over two ids.                                                           *)

sMITorGPL == <<"M","I","T"," ","O","R"," ","G","P","L">>

sGPLWITHXYZ == <<"G","P","L"," ","W","I","T","H"," ","X","Y","Z">>

sLicenseRefX == <<"L","i","c","e","n","s","e","R","e","f","-","x">>

sMITAND == <<"M","I","T"," ","A","N","D">>

KindExpressions ==
    { <<>>, sMIT, sMITPlus, sXYZ, sMITLicense, sMITandGPL, sMITorGPL,
      sMITorGPLParen, sGPLWITHXYZ, sLicenseRefX, sMITAND, <<")">> }

KindLicenseAliasInputs == { <<>>, << <<sMITLicense, sGPL>> >> }

KindCombinedAliasInputs ==
    { <<>>, << <<sMITLicense, sMITandGPL>> >>, << <<sMIT, sMIT>> >> }

InitKinds ==
    InitWith(ParsersOver(KindLicenseAliasInputs, KindCombinedAliasInputs),
             TablesOver({sMIT, sGPL}))

NextKinds ==
    \/ \E e \in KindExpressions : Call(e)
    \/ Return

SpecKinds == InitKinds /\ [][NextKinds]_vars

(* C18: the policy that parse_and_evaluate returns is one of allow, deny   *)
(* and needs-review, for every expression, every alias table and every     *)
(* policy table.                                                           *)
C18_PolicyIsOneOfThree ==
    (Evaluated /\ outcome.raised = None) => outcome.policy \in UsagePolicies

\* 'MIT License' was evaluated through its combined alias 'MIT AND GPL'
\* against a table that denies GPL
C18_Witness ==
    /\ Evaluated
    /\ arg = sMITLicense
    /\ DictHas(self.combined_aliases, smitlicense)
    /\ \E i \in DOMAIN license_policies :
          /\ license_policies[i].id = sGPL
          /\ license_policies[i].usagePolicy = "deny"
    /\ outcome.raised = None
    /\ outcome.lookups = 2
    /\ outcome.policy = "deny"

-----------------------------------------------------------------------------
(* SpecPrecedence: AND and OR mixed in one expression over three ids,      *)
(* against the tables that give each id each policy.                       *)

sMITorEPLandGPL == <<"M","I","T"," ","O","R"," ","E","P","L"," ","A","N","D"," ","G","P","L">>

sMITandEPLorGPL == <<"M","I","T"," ","A","N","D"," ","E","P","L"," ","O","R"," ","G","P","L">>

sMITorEPLParenandGPL == <<"(","M","I","T"," ","O","R"," ","E","P","L",")"," ","A","N","D"," ","G","P","L">>

sMITandEPLorGPLParen == <<"M","I","T"," ","A","N","D"," ","(","E","P","L"," ","O","R"," ","G","P","L",")">>

sMITorEPLlowerandGPL == <<"M","I","T"," ","o","r"," ","E","P","L"," ","a","n","d"," ","G","P","L">>

PrecedenceExpressions ==
    { sMITorEPLandGPL, sMITandEPLorGPL, sMITorEPLParenandGPL,
      sMITandEPLorGPLParen, sMITorEPLlowerandGPL }

PrecedenceTables ==
    { <<[id |-> sMIT, usagePolicy |-> a], [id |-> sEPL, usagePolicy |-> b],
        [id |-> sGPL, usagePolicy |-> c]>> :
          a \in UsagePolicies, b \in UsagePolicies, c \in UsagePolicies }

InitPrecedence ==
    InitWith({SPDXExpressionParser(<<>>, <<>>)}, PrecedenceTables)

NextPrecedence ==
    \/ \E e \in PrecedenceExpressions : Call(e)
    \/ Return

SpecPrecedence == InitPrecedence /\ [][NextPrecedence]_vars

\* the policy the table of the run has for the id
PolicyOf(id) ==
    license_policies[CHOOSE i \in DOMAIN license_policies :
                         license_policies[i].id = id].usagePolicy

\* OR of two policies: allow when one is allow, deny when both are deny
OrOf(p, q) ==
    IF p = "allow" \/ q = "allow" THEN "allow"
    ELSE IF p = "deny" /\ q = "deny" THEN "deny"
    ELSE "needs-review"

\* AND of two policies: allow when both are allow, deny when one is deny
AndOf(p, q) ==
    IF p = "allow" /\ q = "allow" THEN "allow"
    ELSE IF p = "deny" \/ q = "deny" THEN "deny"
    ELSE "needs-review"

(* C19: AND binds tighter than OR and parentheses override precedence: for *)
(* all policies of A, B and C, 'A OR B AND C' evaluates as                 *)
(* OR(A, AND(B, C)), 'A AND B OR C' as OR(AND(A, B), C) and                *)
(* '(A OR B) AND C' as AND(OR(A, B), C).                                   *)
C19_AndBindsTighter ==
    Evaluated =>
        /\ outcome.raised = None
        /\ arg \in {sMITorEPLandGPL, sMITorEPLlowerandGPL} =>
               outcome.policy =
                   OrOf(PolicyOf(sMIT), AndOf(PolicyOf(sEPL), PolicyOf(sGPL)))
        /\ arg = sMITandEPLorGPL =>
               outcome.policy =
                   OrOf(AndOf(PolicyOf(sMIT), PolicyOf(sEPL)), PolicyOf(sGPL))
        /\ arg = sMITorEPLParenandGPL =>
               outcome.policy =
                   AndOf(OrOf(PolicyOf(sMIT), PolicyOf(sEPL)), PolicyOf(sGPL))
        /\ arg = sMITandEPLorGPLParen =>
               outcome.policy =
                   AndOf(PolicyOf(sMIT), OrOf(PolicyOf(sEPL), PolicyOf(sGPL)))

\* 'MIT OR EPL AND GPL' was evaluated where the grouping matters: MIT
\* allowed and GPL denied give allow, and (MIT OR EPL) AND GPL would be deny
C19_Witness ==
    /\ Evaluated
    /\ arg = sMITorEPLandGPL
    /\ PolicyOf(sMIT) = "allow"
    /\ PolicyOf(sGPL) = "deny"
    /\ outcome.policy = "allow"

-----------------------------------------------------------------------------
(* SpecCombined: 'GPL-2.0-only WITH Classpath-exception-2.0' against       *)
(* tables with entries for the base license and for the combined forms,    *)
(* hyphenated and textual, with and without the version of the exception.  *)

sClasspath20 ==
    <<"C","l","a","s","s","p","a","t","h","-","e","x","c","e","p","t",
      "i","o","n","-","2",".","0">>

sGPL20onlywithClasspath20 ==
    <<"G","P","L","-","2",".","0","-","o","n","l","y","-","w","i","t",
      "h","-","C","l","a","s","s","p","a","t","h","-","e","x","c","e",
      "p","t","i","o","n","-","2",".","0">>

sgpl20onlyWITHclasspath20 ==
    <<"g","p","l","-","2",".","0","-","o","n","l","y"," ","w","i","t",
      "h"," ","c","l","a","s","s","p","a","t","h","-","e","x","c","e",
      "p","t","i","o","n","-","2",".","0">>

sGPL20onlyWITHClasspath ==
    <<"G","P","L","-","2",".","0","-","o","n","l","y"," ","W","I","T",
      "H"," ","C","l","a","s","s","p","a","t","h","-","e","x","c","e",
      "p","t","i","o","n">>

sGPL20onlywithClasspath20Lower ==
    <<"G","P","L","-","2",".","0","-","o","n","l","y"," ","w","i","t",
      "h"," ","C","l","a","s","s","p","a","t","h","-","e","x","c","e",
      "p","t","i","o","n","-","2",".","0">>

CombinedExpressions == {sGPL20onlyWITHClasspath20, sGPL20onlywithClasspath20Lower}

InitCombined ==
    InitWith(ParsersOver({<<>>}, {<<>>}),
             TablesOver({sGPL20only, sGPL20onlywithClasspath20,
                         sgpl20onlyWITHclasspath20, sGPL20onlywithClasspath,
                         sGPL20onlyWITHClasspath}))

NextCombined ==
    \/ \E e \in CombinedExpressions : Call(e)
    \/ Return

SpecCombined == InitCombined /\ [][NextCombined]_vars

\* the combined forms of a base license and an exception, in lower case:
\* hyphenated and textual, with the exception as written and without its
\* trailing version
CombinedForms(base, exception) ==
    {lower(base \o w \o e) : w \in {s_with_, sSpWITHSp},
                            e \in {exception, StripVersionSuffix(exception)}}

\* the entries of the table for a combined form
CombinedEntries(base, exception) ==
    {i \in DOMAIN license_policies :
        lower(license_policies[i].id) \in CombinedForms(base, exception)}

\* the policy of the license on its own: the one of its entry, needs-review
\* without one
OwnPolicy(id) ==
    IF \E i \in DOMAIN license_policies : license_policies[i].id = id
    THEN PolicyOf(id) ELSE "needs-review"

(* C20: for 'B WITH E', when the policy table has an entry for a combined  *)
(* form of B and E (hyphenated '{B}-with-{E}' or textual '{B} WITH {E}',   *)
(* with or without the trailing version of E, compared without regard to   *)
(* case) the result is that entry's policy, even when B's own policy       *)
(* differs; when there is no such entry the result is B's own policy.      *)
C20_CombinedFormWins ==
    (Evaluated /\ arg \in CombinedExpressions) =>
        LET combined == CombinedEntries(sGPL20only, sClasspath20)
        IN  /\ outcome.raised = None
            /\ IF combined # {}
               THEN outcome.policy \in
                        {license_policies[i].usagePolicy : i \in combined}
               ELSE outcome.policy = OwnPolicy(sGPL20only)

-----------------------------------------------------------------------------
(* SpecLookup: ids looked up with and without the or-later flag in tables  *)
(* that hold an id in several casings and its variants, with and without   *)
(* a license alias for the id.                                             *)

sMITonly == <<"M","I","T","-","o","n","l","y">>

smitorlater == <<"m","i","t","-","o","r","-","l","a","t","e","r">>

LookupAliasInputs == { <<>>, << <<smit, smit>> >>, << <<smit, sEPL>> >> }

LookupIds == {sMIT, sMit, sMITonly}

InitLookup ==
    InitWith(ParsersOver(LookupAliasInputs, {<<>>}),
             TablesOver({sMIT, smit, sMITonly, smitorlater, sEPL}))

NextLookup ==
    \/ \E id \in LookupIds, or_later \in BOOLEAN : FindLicensePolicy(id, or_later)
    \/ Return

SpecLookup == InitLookup /\ [][NextLookup]_vars

LookedUp == pc = "done" /\ op = "_find_license_policy"

\* the entries of the table whose id is the id
ExactEntries(id) ==
    {i \in DOMAIN license_policies : license_policies[i].id = id}

\* the entries of the table whose id is the id up to letter case
FoldedEntries(id) ==
    {i \in DOMAIN license_policies : lower(license_policies[i].id) = lower(id)}

\* the policies of the entries
PoliciesAt(entries) == {license_policies[i].usagePolicy : i \in entries}

\* the id without '-only' and '-or-later'
VariantBase(id) == replace(replace(id, s_only, <<>>), s_or_later, <<>>)

(* C21: _find_license_policy searches in a fixed order: an entry whose id  *)
(* equals the given id exactly wins over an entry that equals it only up   *)
(* to letter case; the variants '{base}-only', '{base}-or-later' and bare  *)
(* '{base}' are consulted, in that order, only when the or-later flag is   *)
(* set and only after the exact and the case-insensitive match both        *)
(* failed; without the or-later flag no variant is consulted.              *)
C21_LookupOrder ==
    LookedUp =>
        LET id      == arg.license_id
            base    == VariantBase(id)
            only    == FoldedEntries(base \o s_only)
            orlater == FoldedEntries(base \o s_or_later)
            bare    == FoldedEntries(base)
        IN  IF ExactEntries(id) # {}
            THEN outcome \in PoliciesAt(ExactEntries(id))
            ELSE IF FoldedEntries(id) # {}
            THEN outcome \in PoliciesAt(FoldedEntries(id))
            ELSE IF ~arg.or_later THEN outcome = None
            ELSE IF only # {} THEN outcome \in PoliciesAt(only)
            ELSE IF orlater # {} THEN outcome \in PoliciesAt(orlater)
            ELSE IF bare # {} THEN outcome \in PoliciesAt(bare)
            ELSE outcome = None

-----------------------------------------------------------------------------
(* SpecRef: custom license references, plain and qualified by a document,  *)
(* evaluated with and without a license alias for the reference.           *)

sDocumentRefLicenseRefX == <<"D","o","c","u","m","e","n","t","R","e","f","-","d",":","L","i","c","e","n","s","e","R","e","f","-","x">>

slicenserefx == <<"l","i","c","e","n","s","e","r","e","f","-","x">>

RefAliasInputs == { <<>>, << <<slicenserefx, sMIT>> >> }

RefExpressions == { sLicenseRefX, sDocumentRefLicenseRefX }

InitRef ==
    InitWith(ParsersOver(RefAliasInputs, {<<>>}),
             TablesOver({sLicenseRefX, sDocumentRefLicenseRefX, sMIT}))

NextRef ==
    \/ \E e \in RefExpressions : Call(e)
    \/ Return

SpecRef == InitRef /\ [][NextRef]_vars

(* C22: a LicenseRef token (LicenseRef-x or DocumentRef-d:LicenseRef-x)    *)
(* is decided by a direct lookup of that reference in the policy table     *)
(* with no alias normalization: an entry of the license alias map for the  *)
(* reference never changes its result, and a reference absent from the     *)
(* policy table evaluates to needs-review.                                 *)
C22_RefDirectLookup ==
    (Evaluated /\ _is_license_ref(arg)) =>
        /\ outcome.raised = None
        /\ IF ExactEntries(arg) # {}
           THEN outcome.policy \in PoliciesAt(ExactEntries(arg))
           ELSE IF FoldedEntries(arg) # {}
           THEN outcome.policy \in PoliciesAt(FoldedEntries(arg))
           ELSE outcome.policy = "needs-review"

-----------------------------------------------------------------------------
(* SpecTokenize: the tokenizer run one loop iteration at a time on every   *)
(* short string over the characters it treats differently, and or-later    *)
(* identifiers evaluated against tables that hold the '-only' variant.     *)

\* the longest string tokenized
MaxChars == 3

TokenizeChars == {"O", "R", " ", "+", "(", ")", "w", "/"}

sParenMITPlus == <<"(","M","I","T","+",")">>

sMITPlusOrMITPlus == <<"M","I","T","+"," ","O","R"," ","M","I","T","+">>

sMITPlusSpParen == <<"(","M","I","T","+"," ",")">>

TokenizeInputs ==
    SeqsUpTo(TokenizeChars, MaxChars) \cup {sParenMITPlus, sMITPlusOrMITPlus}

PlusExpressions == {sMITPlus, sParenMITPlus, sMITPlusOrMITPlus, sMITPlusSpParen}

InitTokenize == InitWith(ParsersOver({<<>>}, {<<>>}), TablesOver({sMITonly}))

NextTokenize ==
    \/ \E e \in TokenizeInputs : TokenizeStart(e)
    \/ TokenizeIterate
    \/ TokenizeFinish
    \/ \E e \in PlusExpressions : Call(e)
    \/ Return

SpecTokenize == InitTokenize /\ [][NextTokenize]_vars

\* the loop of _tokenize is scheduled until it is left
SpecTokenizeFair ==
    SpecTokenize /\ WF_vars(TokenizeIterate) /\ WF_vars(TokenizeFinish)

Tokenized == pc = "done" /\ op = "_tokenize"

\* character i of the text is a '+' that directly follows a character of an
\* identifier, with the end, whitespace or a parenthesis after it
PlusAfterIdentifier(text, i) ==
    /\ i > 1
    /\ text[i] = "+"
    /\ ~isspace(text[i - 1])
    /\ text[i - 1] \notin {"(", ")", "+"}
    /\ \/ i = Len(text)
       \/ isspace(text[i + 1])
       \/ text[i + 1] \in {"(", ")"}

\* the tokens hold a LICENSE_ID that ends right before character i, followed
\* by a PLUS at character i
IdThenPlus(tokens, i) ==
    \E k \in 2..Len(tokens) :
        /\ tokens[k].type = "PLUS"
        /\ tokens[k].position = i - 1
        /\ tokens[k - 1].type = "LICENSE_ID"
        /\ tokens[k - 1].position + Len(tokens[k - 1].value) = i - 1

(* C23: whenever '+' directly follows an identifier with no whitespace     *)
(* between them, whatever comes after the '+' (end of string, whitespace   *)
(* or a parenthesis), the tokenizer emits the identifier without the '+'   *)
(* as a LICENSE_ID followed by a PLUS token, and the parser looks the      *)
(* identifier up with the or-later flag set: 'MIT+' takes the policy of    *)
(* the table's 'MIT-only' entry.                                           *)
C23_PlusIsOrLater ==
    /\ Tokenized =>
          \A i \in 1..Len(outcome.expression) :
              PlusAfterIdentifier(outcome.expression, i)
                  => IdThenPlus(outcome.tokens, i)
    /\ (Evaluated /\ arg \in PlusExpressions) =>
          \A i \in DOMAIN license_policies :
              license_policies[i].id = sMITonly
                  => outcome.policy = license_policies[i].usagePolicy

\* the tokens are those of the text in the order of the text: every token
\* but the last stands where its value stands in the text, and each one
\* starts after the one before it
InInputOrder(text, tokens) ==
    /\ \A k \in 1..(Len(tokens) - 1) :
          /\ tokens[k].value # <<>>
          /\ tokens[k].position + Len(tokens[k].value) <= Len(text)
          /\ tokens[k].value
                = Slice(text, tokens[k].position,
                        tokens[k].position + Len(tokens[k].value))
    /\ \A k \in 1..(Len(tokens) - 1) :
          tokens[k].position < tokens[k + 1].position

\* the last token is the EOF token and no other token is
EndsWithOneEof(tokens) ==
    /\ tokens # <<>>
    /\ \A k \in DOMAIN tokens : tokens[k].type = "EOF" <=> k = Len(tokens)

(* C24: tokenization never fails: for every input string _tokenize         *)
(* terminates (every iteration of its loop consumes at least one           *)
(* character) and returns a token list, in input order with strictly       *)
(* increasing positions, whose last token is EOF and which contains no     *)
(* other EOF.                                                              *)
C24_TokenizeTerminates ==
    /\ [][(pc = "tokenizing" /\ pc' = "tokenizing")
              => outcome'.pos > outcome.pos]_vars
    /\ (pc = "tokenizing") ~> Tokenized
    /\ [](Tokenized =>
             /\ outcome.tokens = _tokenize(arg)
             /\ InInputOrder(outcome.expression, outcome.tokens)
             /\ EndsWithOneEof(outcome.tokens))

\* ' O+' was tokenized in two iterations into 'O', '+' and EOF
C24_Witness ==
    /\ Tokenized
    /\ arg = <<" ", "O", "+">>
    /\ outcome.expression = <<"O", "+">>
    /\ Len(outcome.tokens) = 3
    /\ outcome.tokens[1].type = "LICENSE_ID"
    /\ outcome.tokens[2].type = "PLUS"
    /\ outcome.tokens[2].position = 1
    /\ outcome.tokens[3] = Token("EOF", <<>>, 2)

-----------------------------------------------------------------------------
(* SpecWhole: whole expressions that are keys of the combined aliases, in  *)
(* several casings and with whitespace around them, with a license alias   *)
(* for the same phrase, and a sentinel that is a key too.                  *)

sCDDLPlusGPLv2 == <<"C","D","D","L"," ","+"," ","G","P","L","v","2">>

scddlPlusgplv2 == <<"c","d","d","l"," ","+"," ","g","p","l","v","2">>

sSpCDDLPlusGPLv2Sp == <<" ","C","D","D","L"," ","+"," ","G","P","L","v","2"," ">>

sCDDL11 == <<"C","D","D","L","-","1",".","1">>

sCDDL == <<"C","D","D","L">>

sGPLv2 == <<"G","P","L","v","2">>

sCDDLORGPLv2 == <<"C","D","D","L"," ","O","R"," ","G","P","L","v","2">>

WholeLicenseAliasInputs == { <<>>, << <<sCDDLPlusGPLv2, sGPLv2>> >> }

WholeCombinedAliasInputs ==
    { <<>>,
      << <<sCDDLPlusGPLv2, sCDDL11>> >>,
      << <<sCDDLPlusGPLv2, sCDDLORGPLv2>> >>,
      << <<sSpCDDLPlusGPLv2Sp, sCDDL11>> >>,
      << <<sNONE, sCDDL11>> >> }

WholeExpressions ==
    { sCDDLPlusGPLv2, scddlPlusgplv2, sSpCDDLPlusGPLv2Sp, sCDDL11, sNONE }

InitWhole ==
    InitWith(ParsersOver(WholeLicenseAliasInputs, WholeCombinedAliasInputs),
             TablesOver({sCDDL, sGPLv2, sCDDL11}))

NextWhole ==
    \/ \E e \in WholeExpressions : Call(e)
    \/ Return

SpecWhole == InitWhole /\ [][NextWhole]_vars

\* the call returned what evaluating the expression returns
SameResult(expression) ==
    \E r \in {parse_and_evaluate(self, expression, license_policies, 0)} :
        /\ outcome.policy = r.policy
        /\ outcome.explanation = r.explanation
        /\ outcome.raised = r.raised

(* C25: when the whole expression, compared case-insensitively, is a key   *)
(* of the combined aliases, the result of parse_and_evaluate is the        *)
(* result of evaluating the replacement expression; the lookup comes       *)
(* before license-alias substitution and before tokenization, so the       *)
(* original text is never parsed.                                          *)
C25_WholeExpressionAlias ==
    (Evaluated /\ DictHas(self.combined_aliases, lower(arg)))
        => SameResult(DictGet(self.combined_aliases, lower(arg)))

(* C25, amended: when the expression is none of the empty string,          *)
(* NO-LICENSE-FOUND, NOASSERTION and NONE, and its text without the        *)
(* whitespace around it, compared case-insensitively, is a key of the      *)
(* combined aliases, the result of parse_and_evaluate is the result of     *)
(* evaluating the replacement expression; the lookup comes before          *)
(* license-alias substitution and before tokenization.                     *)
C25_StrippedExpressionAlias ==
    (/\ Evaluated
     /\ ~IsSentinel(arg)
     /\ DictHas(self.combined_aliases, lower(strip(arg))))
        => SameResult(DictGet(self.combined_aliases, lower(strip(arg))))

\* 'CDDL + GPLv2', a license alias phrase for GPLv2 and a combined alias for
\* CDDL-1.1, was evaluated against a table that allows CDDL-1.1 and denies
\* GPLv2
C25_Witness ==
    /\ Evaluated
    /\ arg = sCDDLPlusGPLv2
    /\ DictHas(self.license_aliases, scddlPlusgplv2)
    /\ DictHas(self.combined_aliases, scddlPlusgplv2)
    /\ DictGet(self.combined_aliases, scddlPlusgplv2) = sCDDL11
    /\ license_policies = <<[id |-> sCDDL11, usagePolicy |-> "allow"],
                            [id |-> sGPLv2, usagePolicy |-> "deny"]>>
    /\ outcome.policy = "allow"

-----------------------------------------------------------------------------
(* SpecPhrase: alias phrases of several words, one a part of the other,    *)
(* as operands alone, in parentheses and next to AND and OR.               *)

sTheMITLicense == <<"T","h","e"," ","M","I","T"," ","L","i","c","e","n","s","e">>

sthemitlicense == <<"t","h","e"," ","m","i","t"," ","l","i","c","e","n","s","e">>

PhraseAliasInputs ==
    { << <<sTheMITLicense, sMIT>>, <<sMITLicense, sEPL>> >>,
      << <<sMITLicense, sEPL>>, <<sTheMITLicense, sMIT>> >>,
      << <<sTheMITLicense, sMIT>> >>,
      << <<sMITLicense, sEPL>> >> }

Phrases == { sTheMITLicense, sthemitlicense, sMITLicense, smitlicense }

\* the phrase as an operand: alone, in parentheses, before OR, after AND,
\* and in parentheses after AND
PhraseAlone(phrase) == phrase

PhraseInParens(phrase) == <<"(">> \o phrase \o <<")">>

PhraseOrGPL(phrase) == phrase \o sSpORSp \o sGPL

GPLAndPhrase(phrase) == sGPL \o sSpANDSp \o phrase

GPLAndPhraseInParens(phrase) == sGPL \o sSpANDSp \o PhraseInParens(phrase)

PhraseExpressions ==
    UNION { { PhraseAlone(p), PhraseInParens(p), PhraseOrGPL(p),
              GPLAndPhrase(p), GPLAndPhraseInParens(p) } : p \in Phrases }

InitPhrase ==
    InitWith(ParsersOver(PhraseAliasInputs, {<<>>}),
             TablesOver({sMIT, sEPL, sGPL}))

NextPhrase ==
    \/ \E e \in PhraseExpressions : Call(e)
    \/ Return

SpecPhrase == InitPhrase /\ [][NextPhrase]_vars

\* the policy of the canonical id that the license aliases give the phrase
PhrasePolicy(phrase) == OwnPolicy(DictGet(self.license_aliases, lower(phrase)))

(* C26: multi-word alias phrases are substituted longest-first at phrase   *)
(* boundaries (string start and end, whitespace, parentheses): an operand  *)
(* of an expression that is an alias phrase evaluates to the policy of     *)
(* that phrase's own canonical id, also when a shorter alias phrase of     *)
(* the map is a part of it and when the phrase stands next to an operator  *)
(* or a parenthesis.                                                       *)
C26_PhraseOperand ==
    Evaluated =>
        \A p \in Phrases :
            DictHas(self.license_aliases, lower(p)) =>
                /\ arg \in {PhraseAlone(p), PhraseInParens(p)}
                      => outcome.policy = PhrasePolicy(p)
                /\ arg = PhraseOrGPL(p)
                      => outcome.policy = OrOf(PhrasePolicy(p), OwnPolicy(sGPL))
                /\ arg \in {GPLAndPhrase(p), GPLAndPhraseInParens(p)}
                      => outcome.policy = AndOf(OwnPolicy(sGPL), PhrasePolicy(p))

\* 'GPL AND (the mit license)' was evaluated with the alias 'MIT License'
\* for EPL listed before the alias 'The MIT License' for MIT, against a
\* table that allows GPL and denies MIT
C26_Witness ==
    /\ Evaluated
    /\ arg = GPLAndPhraseInParens(sthemitlicense)
    /\ self.license_aliases = << <<smitlicense, sEPL>>, <<sthemitlicense, sMIT>> >>
    /\ license_policies = <<[id |-> sGPL, usagePolicy |-> "allow"],
                            [id |-> sMIT, usagePolicy |-> "deny"]>>
    /\ outcome.policy = "deny"

-----------------------------------------------------------------------------
(* SpecResolution: components whose license is a name the policy table     *)
(* does not know, audited with and without a resolver whose SPDX list,     *)
(* when the fetch succeeds, knows the name.                                *)

ResolutionComponents ==
    [name : {<<"a">>},
     versionInfo : {<<"1">>},
     externalRefs : {<<>>},
     licenseConcluded : {sMITLicense, sXYZ, sMIT, snon_standard},
     enrichment : {NoEnrichment,
                   [set |-> TRUE,
                    licenseResolutions |->
                        <<[original |-> sMITLicense, resolved |-> snon_standard]>>,
                    auditResolution |-> <<>>]}]

ResolutionTables ==
    { <<>>,
      <<[id |-> sMIT, usagePolicy |-> "allow"]>>,
      <<[id |-> sMIT, usagePolicy |-> "deny"]>> }

InitResolution == InitWith({SPDXExpressionParser(<<>>, <<>>)}, ResolutionTables)

NextResolution ==
    \/ \E c \in ResolutionComponents, w \in BOOLEAN :
          AuditComponent(c, <<>>, w, <<>>, <<>>, <<>>, AuditFetchOutcomes, AuditReplies)
    \/ Return

SpecResolution == InitResolution /\ [][NextResolution]_vars

\* the table has no entry for the license string, in any letter case
NoMatchingPolicy(license) == FoldedEntries(license) = {}

\* the positions of the event in what ran
Ran(event) == {i \in DOMAIN outcome.ran : outcome.ran[i] = event}

(* C27: in audit_component_with_resolution with a resolver supplied, a     *)
(* component whose license string has no matching policy is passed to      *)
(* resolver.resolve_license before the final evaluation, and when the      *)
(* resolver returns an id the reported policy is the one evaluated for     *)
(* the resolved id.                                                        *)
C27_UnknownLicenseIsResolved ==
    (/\ Audited
     /\ arg.license_resolver
     /\ NoMatchingPolicy(arg.component.licenseConcluded))
        => /\ Ran("resolve") # {}
           /\ Ran("evaluate") # {}
           /\ SetMin(Ran("resolve")) < SetMax(Ran("evaluate"))
           /\ outcome.results[1].resolution # <<>>
                 => outcome.results[1].policy
                        = OwnPolicy(outcome.results[1].resolution[1].resolved)

-----------------------------------------------------------------------------
(* The SPDX lists of one resolver over a sequence of resolve_license       *)
(* calls, in SpecResolver.                                                 *)

(* C28: over any sequence of resolve_license calls on one LicenseResolver  *)
(* the SPDX table is fetched at most once, also when the fetch failed:     *)
(* after a failed fetch the resolver keeps the empty table and no later    *)
(* call retries.                                                           *)
C28_FetchAtMostOnce ==
    /\ [](fetches <= 1)
    /\ [][resolver._spdx_licenses.set
              => /\ fetches' = fetches
                 /\ resolver'._spdx_licenses = resolver._spdx_licenses]_vars

\* after a failed fetch, 'MIT License' was resolved without a new fetch, on
\* the empty table
C28_Witness ==
    /\ Resolved
    /\ arg = sMITLicense
    /\ fetches = 1
    /\ resolver._spdx_licenses = SomeDict(<<>>)
    /\ Ran("fetch") = {}
    /\ outcome.result.resolved = PyNone

-----------------------------------------------------------------------------
(* SpecParens: expressions of every shape evaluated as they are and        *)
(* wrapped in one pair of parentheses, with and without license aliases.   *)

sMITGPL == <<"M","I","T"," ","G","P","L">>

ParenOperands ==
    { sMIT, sMITPlus, sMITorGPL, sMITandGPL, sMITLicense, sLicenseRefX,
      sGPLWITHXYZ, sMITorGPLParen, sMITGPL, sMITAND, sXYZ }

\* the expression in one pair of parentheses
Wrapped(expression) == <<"(">> \o expression \o <<")">>

ParenLicenseAliasInputs ==
    { <<>>, << <<sMITLicense, sGPL>> >>, << <<smit, sGPL>> >> }

InitParens ==
    InitWith(ParsersOver(ParenLicenseAliasInputs, {<<>>}),
             TablesOver({sMIT, sMITonly, sGPL}))

NextParens ==
    \/ \E x \in ParenOperands : Call(x)
    \/ \E x \in ParenOperands : Call(Wrapped(x))
    \/ Return

SpecParens == InitParens /\ [][NextParens]_vars

(* C29: wrapping a whole expression in one pair of parentheses does not    *)
(* change its policy: for every expression X and every policy and alias    *)
(* table, parse_and_evaluate('(' + X + ')') returns the same policy as     *)
(* parse_and_evaluate(X), including when X is an identifier with a '+'     *)
(* suffix.                                                                 *)
C29_ParenthesesKeepPolicy ==
    Evaluated =>
        \A x \in ParenOperands :
            arg = Wrapped(x)
                => outcome.policy
                       = parse_and_evaluate(self, x, license_policies, 0).policy

-----------------------------------------------------------------------------
(* SpecParse: every token list of at most MaxTokens tokens of any kind,    *)
(* closed by EOF, parsed from every position of it.                        *)

\* the tokens of a list before its closing EOF
MaxTokens == 3

\* one token of each kind
TokenOfKind(type) ==
    Token(type,
          CASE type = "LICENSE_ID"   -> sMIT
            [] type = "LICENSE_REF"  -> sLicenseRefX
            [] type = "ADDITION_REF" -> sXYZ
            [] type = "PLUS"         -> <<"+">>
            [] type = "AND"          -> sAND
            [] type = "OR"           -> sOR
            [] type = "WITH"         -> sWITH
            [] type = "LPAREN"       -> <<"(">>
            [] type = "RPAREN"       -> <<")">>
            [] OTHER                 -> <<>>,
          0)

TokenLists ==
    { t \o <<TokenOfKind("EOF")>> :
          t \in SeqsUpTo({TokenOfKind(type) : type \in TokenTypes}, MaxTokens) }

InitParse ==
    InitWith({SPDXExpressionParser(<<>>, <<>>)},
             { <<[id |-> sMIT, usagePolicy |-> "allow"]>> })

NextParse ==
    \/ /\ pc = "idle"
       /\ \E tokens \in TokenLists : \E pos \in 0..Len(tokens) :
              ParseExpression(tokens, pos)
    \/ Return

SpecParse == InitParse /\ [][NextParse]_vars

Parsed == pc = "done" /\ op = "_parse_expression"

\* the result was returned at a position after q and not beyond the list
ConsumedFrom(result, q, tokens) == result.pos > q /\ result.pos <= Len(tokens)

\* the call returned at a position between its start and the end of the
\* list, and every OR and AND of the list and every '(' has a token consumed
\* by the iteration or the descent that starts at it
Advances ==
    /\ outcome.raised = None
    /\ outcome.pos >= arg.pos
    /\ outcome.pos <= Len(arg.tokens)
    /\ \A q \in 0..(Len(arg.tokens) - 1) :
          /\ arg.tokens[q + 1].type = "OR"
                => ConsumedFrom(_parse_and_expression(self, arg.tokens, q + 1,
                                    license_policies), q, arg.tokens)
          /\ arg.tokens[q + 1].type = "AND"
                => ConsumedFrom(_parse_with_expression(self, arg.tokens, q + 1,
                                    license_policies), q, arg.tokens)
          /\ arg.tokens[q + 1].type = "LPAREN"
                => ConsumedFrom(_parse_simple_expression(self, arg.tokens, q,
                                    license_policies), q, arg.tokens)

\* the '(' tokens of the list
Parentheses(tokens) == {k \in DOMAIN tokens : tokens[k].type = "LPAREN"}

====
